---- MODULE Spec2Model ----
(***************************************************************************)
(* A model of fpdt.py (fprime-data-tool): the serializable types, the      *)
(* packet decoder, the record framers and the record loop of the main      *)
(* program.  Bytes are naturals in 0..255, a bytes object is a sequence of *)
(* bytes and a binary stream is a pair (data, pos).                        *)
(***************************************************************************)
EXTENDS Integers, Sequences, FiniteSets, TLC

VARIABLES
    flags,          \* the FW_* configuration flags (module globals)
    ctypes,         \* the Fw*Type configurable type aliases (module globals)
    fsw_dict,       \* the loaded dictionary, or NoDict
    record_type,    \* name of the top-level type being decoded; in the
                    \* main program args.record_type until it is looked up
    istream,        \* the input stream: [data, pos]
    pc,             \* position of the program
    result,         \* outcome of the last decode call
    record_index,   \* records printed so far by the record loop
    stderr,         \* number of warning lines written to sys.stderr
    scan,           \* locals of read_until_sync_word while it runs
    ostream,        \* outcome of the last encode call: [st, out]; in the
                    \* main program sys.stdout: out holds the lines written
    redecoded,      \* outcome of decoding the bytes of ostream again
    output_format   \* args.output_format, which selects the printer

vars == <<flags, ctypes, fsw_dict, record_type, istream, pc, result,
          record_index, stderr, scan, ostream, redecoded, output_format>>

-----------------------------------------------------------------------------
(* Bounds of the model *)

\* longest run of records (chunks) an input stream is built from
MaxChunks == 2
\* longest stream handed to read_until_sync_word
MaxScanLen == 6
\* most records the record loop of the main program prints
MaxRecords == 3

-----------------------------------------------------------------------------
(* Helpers over bytes *)

Min(a, b) == IF a < b THEN a ELSE b
Max(a, b) == IF a > b THEN a ELSE b

None == [t |-> "None"]

RECURSIVE BytesToNat(_)
\* struct.unpack of a big-endian unsigned integer
BytesToNat(bs) ==
    IF bs = <<>> THEN 0
    ELSE BytesToNat(SubSeq(bs, 1, Len(bs) - 1)) * 256 + bs[Len(bs)]

RECURSIVE NatToBytes(_, _)
\* struct.pack of a big-endian unsigned integer of w bytes
NatToBytes(n, w) ==
    IF w = 0 THEN <<>>
    ELSE Append(NatToBytes(n \div 256, w - 1), n % 256)

RECURSIVE Pow256(_)
Pow256(w) == IF w = 0 THEN 1 ELSE 256 * Pow256(w - 1)

\* istream.read(n): at most n bytes from the current position; all the
\* remaining bytes when n is negative
Read(data, pos, n) ==
    IF n < 0 THEN SubSeq(data, pos + 1, Len(data))
    ELSE SubSeq(data, pos + 1, Min(pos + n, Len(data)))

\* outcome of a decode call: the value and the stream position, or the
\* exception raised; warn counts the lines written to sys.stderr
Ok(v, p, w) == [st |-> "ok", val |-> v, pos |-> p, warn |-> w]
Raise(e, p, w) == [st |-> e, pos |-> p, warn |-> w]

-----------------------------------------------------------------------------
(* F Prime configuration flags and configurable types *)

fprime_configurable_flags ==
    [FW_USE_TIME_BASE |-> TRUE,
     FW_USE_TIME_CONTEXT |-> TRUE,
     FW_SERIALIZE_TRUE_VALUE |-> <<255>>,
     FW_SERIALIZE_FALSE_VALUE |-> <<0>>]

fprime_configurable_types ==
    [FwBuffSizeType |-> "U16",
     FwChanIdType |-> "U32",
     FwEnumStoreType |-> "I32",
     FwEventIdType |-> "U32",
     FwOpcodeType |-> "U32",
     FwPacketDescriptorType |-> "U32",
     FwPrmIdType |-> "U32",
     FwTimeBaseStoreType |-> "U16",
     FwTimeContextStoreType |-> "U8",
     FwTlmPacketizeIdType |-> "U16"]

-----------------------------------------------------------------------------
(* Fundamental types *)

\* the fundamental types of fundamental_type_specs that the model uses
FundamentalNames == {"U8", "U16", "U32", "I32"}

\* struct.Struct(struct_format).size
StructSize(name) ==
    CASE name = "U8" -> 1
      [] name = "U16" -> 2
      [] name = "U32" -> 4
      [] name = "I32" -> 4

IsSigned(name) == name = "I32"

\* struct.unpack(data)[0].  The sign bit of a signed type is weighed on
\* its own, so that no intermediate value leaves the range of I32.
StructUnpack(name, data) ==
    IF IsSigned(name) /\ data[1] >= 128
    THEN (data[1] - 256) * Pow256(Len(data) - 1) + BytesToNat(Tail(data))
    ELSE BytesToNat(data)

\* the values struct.pack accepts; the values of the model are below 2^31
InRange(name, v) ==
    IF StructSize(name) = 4 THEN IsSigned(name) \/ v >= 0
    ELSE IF IsSigned(name)
    THEN /\ v >= 0 - (Pow256(StructSize(name)) \div 2)
         /\ v < Pow256(StructSize(name)) \div 2
    ELSE v >= 0 /\ v < Pow256(StructSize(name))

\* struct.pack(value): two's complement for a negative value
StructPack(name, v) ==
    IF v < 0
    THEN <<255 - ((0 - (v + 1)) \div Pow256(StructSize(name) - 1))>>
             \o NatToBytes(Pow256(StructSize(name) - 1) - 1
                               - ((0 - (v + 1)) % Pow256(StructSize(name) - 1)),
                           StructSize(name) - 1)
    ELSE NatToBytes(v, StructSize(name))

Fundamental(name, v) == [t |-> name, value |-> v]

FundamentalDecode(name, data, pos) ==
    LET got == Read(data, pos, StructSize(name))
    IN IF Len(got) = 0 THEN Raise("BrokenPipeError", pos, 0)
       ELSE IF Len(got) < StructSize(name)
            THEN Raise("StructError", pos + Len(got), 0)
            ELSE Ok(Fundamental(name, StructUnpack(name, got)),
                    pos + Len(got), 0)

\* outcome of an encode call: the bytes written so far, and the exception
\* raised if any
Written(out) == [st |-> "ok", out |-> out]
EncRaise(e, out) == [st |-> e, out |-> out]

FundamentalEncode(self, out) ==
    IF InRange(self.t, self.value)
    THEN Written(out \o StructPack(self.t, self.value))
    ELSE EncRaise("StructError", out)

-----------------------------------------------------------------------------
(* Bool *)

\* Bool.decode changed to return true only for the configured true byte
BoolDecode_TrueOnlyForTrueByte(fl, data, pos) ==
    LET got == Read(data, pos, 1)
    IN IF Len(got) = 0 THEN Raise("BrokenPipeError", pos, 0)
       ELSE IF got = fl.FW_SERIALIZE_TRUE_VALUE
            THEN Ok([t |-> "bool", value |-> TRUE], pos + 1, 0)
            ELSE Ok([t |-> "bool", value |-> FALSE], pos + 1, 0)

BoolDecode(fl, data, pos) ==
    LET got == Read(data, pos, 1)
    IN IF Len(got) = 0 THEN Raise("BrokenPipeError", pos, 0)
       ELSE IF got = fl.FW_SERIALIZE_FALSE_VALUE
            THEN Ok([t |-> "bool", value |-> FALSE], pos + 1, 0)
            ELSE Ok([t |-> "bool", value |-> TRUE], pos + 1, 0)

\* Bool.encode changed to write the configured true byte for both values
BoolEncode_WritesTrueByte(fl, self, out) ==
    Written(out \o fl.FW_SERIALIZE_TRUE_VALUE)

BoolEncode(fl, self, out) ==
    IF self.value
    THEN Written(out \o fl.FW_SERIALIZE_TRUE_VALUE)
    ELSE Written(out \o fl.FW_SERIALIZE_FALSE_VALUE)

-----------------------------------------------------------------------------
(* Buffer, AsciiBuffer, String, Time *)

Buffer(data) == [t |-> "Buffer", data |-> data]

\* length = -1 is "read the rest"
BufferDecode(data, pos, length) ==
    LET got == IF length = 0 THEN <<>> ELSE Read(data, pos, length)
    IN Ok(Buffer(got), pos + Len(got), 0)

BufferEncode(self, out) == Written(out \o self.data)

\* bytes.decode('ascii') accepts the bytes below 128 only
IsAscii(bs) == \A i \in 1..Len(bs) : bs[i] < 128

AsciiBufferDecode(data, pos, length) ==
    LET got == IF length = 0 THEN <<>> ELSE Read(data, pos, length)
    IN IF IsAscii(got)
       THEN Ok([t |-> "AsciiBuffer", string |-> got], pos + Len(got), 0)
       ELSE Raise("UnicodeDecodeError", pos + Len(got), 0)

AsciiBufferEncode(self, out) == Written(out \o self.string)

\* Sequencing of statements: an exception raised by a call propagates out
\* of the method, otherwise the statements after the call run on its outcome
Bind(r, K(_)) == IF r.st # "ok" THEN r ELSE K(r)

\* the outcome of a call on a sub-stream, seen from the caller: the caller's
\* stream is at pos, and warn more lines were written to sys.stderr
Outer(r, pos, warn) == [r EXCEPT !.pos = pos, !.warn = @ + warn]

\* bytes.decode('ascii') of the bytes got from the stream, which is then at
\* pos + len(got)
AsciiDecode(got, pos) ==
    IF IsAscii(got)
    THEN Ok([t |-> "str", string |-> got], pos + Len(got), 0)
    ELSE Raise("UnicodeDecodeError", pos + Len(got), 0)

\* string_raw: nothing is read when the caller passes the length 0
StringRaw(data, pos, length, n) ==
    IF length = <<0>> THEN <<>> ELSE Read(data, pos, n)

\* length is the optional argument: <<>> when it is left out or None,
\* <<n>> when the caller passes n
StringDecode(ct, data, pos, length) ==
    Bind(FundamentalDecode(ct.FwBuffSizeType, data, pos), LAMBDA len :
    Bind(AsciiDecode(StringRaw(data, len.pos, length, len.val.value),
                     len.pos), LAMBDA str :
    Ok([t |-> "string", length |-> len.val, string |-> str.val.string],
       str.pos, 0)))

StringEncode(ct, self, out) ==
    IF self.length.t # ct.FwBuffSizeType THEN EncRaise("AssertionError", out)
    ELSE Bind(FundamentalEncode(self.length, out), LAMBDA len :
         Written(len.out \o self.string))

\* a field of Time that a configuration flag switches off is None
OptionalDecode(use, name, data, pos) ==
    IF use THEN FundamentalDecode(name, data, pos) ELSE Ok(None, pos, 0)

OptionalEncode(use, self, out) ==
    IF use THEN FundamentalEncode(self, out) ELSE Written(out)

\* TimeDecode with the context read in front of the base
TimeDecode_ContextBeforeBase(fl, ct, data, pos) ==
    Bind(OptionalDecode(fl.FW_USE_TIME_CONTEXT, ct.FwTimeContextStoreType,
                        data, pos), LAMBDA context :
    Bind(OptionalDecode(fl.FW_USE_TIME_BASE, ct.FwTimeBaseStoreType,
                        data, context.pos), LAMBDA base :
    Bind(FundamentalDecode("U32", data, base.pos), LAMBDA seconds :
    Bind(FundamentalDecode("U32", data, seconds.pos), LAMBDA microseconds :
    Ok([t |-> "Time",
        base |-> base.val,
        context |-> context.val,
        seconds |-> seconds.val,
        microseconds |-> microseconds.val],
       microseconds.pos, 0)))))

TimeDecode(fl, ct, data, pos) ==
    Bind(OptionalDecode(fl.FW_USE_TIME_BASE, ct.FwTimeBaseStoreType,
                        data, pos), LAMBDA base :
    Bind(OptionalDecode(fl.FW_USE_TIME_CONTEXT, ct.FwTimeContextStoreType,
                        data, base.pos), LAMBDA context :
    Bind(FundamentalDecode("U32", data, context.pos), LAMBDA seconds :
    Bind(FundamentalDecode("U32", data, seconds.pos), LAMBDA microseconds :
    Ok([t |-> "Time",
        base |-> base.val,
        context |-> context.val,
        seconds |-> seconds.val,
        microseconds |-> microseconds.val],
       microseconds.pos, 0)))))

\* The last two statements call U32.decode(ostream, fsw_dict): the name
\* fsw_dict is not defined in the method nor in the imported module, so
\* evaluating the call raises NameError after base and context are written.
TimeEncode(fl, ct, self, out) ==
    IF \/ fl.FW_USE_TIME_BASE /\ self.base.t # ct.FwTimeBaseStoreType
       \/ fl.FW_USE_TIME_CONTEXT /\ self.context.t # ct.FwTimeContextStoreType
       \/ self.seconds.t # "U32"
       \/ self.microseconds.t # "U32"
    THEN EncRaise("AssertionError", out)
    ELSE Bind(OptionalEncode(fl.FW_USE_TIME_BASE, self.base, out),
              LAMBDA base :
         Bind(OptionalEncode(fl.FW_USE_TIME_CONTEXT, self.context, base.out),
              LAMBDA context :
         EncRaise("NameError", context.out)))

-----------------------------------------------------------------------------
(* Enumerations represented as a fundamental type *)

\* enum_represented_as(enum_underlying_type).decode: the IntEnum constructor
\* raises ValueError("<value> is not a valid <name>") for a value that is
\* no member; arg keeps that value
EnumDecode(name, underlying, members, data, pos) ==
    Bind(FundamentalDecode(underlying, data, pos), LAMBDA untyped :
    IF untyped.val.value \in members
    THEN Ok([t |-> name, value |-> untyped.val.value], untyped.pos, 0)
    ELSE [st |-> "ValueError", pos |-> untyped.pos, warn |-> 0,
          arg |-> untyped.val.value])

EnumEncode(underlying, self, out) ==
    FundamentalEncode(Fundamental(underlying, self.value), out)

-----------------------------------------------------------------------------
(* Types of the dictionary's type namespace *)

NoType == [kind |-> "None", name |-> "None"]
FundamentalT(name) == [kind |-> "fundamental", name |-> name]
BoolT == [kind |-> "bool", name |-> "bool"]
StringT == [kind |-> "string", name |-> "string"]

NoDict == [loaded |-> FALSE]

\* the types construct_types makes from the definitions of a dictionary:
\* an IntEnum represented as underlying, an Array of size elements, a
\* Serializable with the types of its members in member_defs
EnumT(name, underlying, members) ==
    [kind |-> "enum", name |-> name, underlying |-> underlying,
     members |-> members]
ArrayT(name, element_type, size) ==
    [kind |-> "array", name |-> name, element_type |-> element_type,
     size |-> size]
SerializableT(name, member_defs) ==
    [kind |-> "serializable", name |-> name, member_defs |-> member_defs]

RECURSIVE TypeDecode(_, _, _, _, _, _)
RECURSIVE DecodeMembers(_, _, _, _, _, _, _)

\* the loop of Array.decode over range(size) and of Serializable.decode
\* over member_defs: each type decodes from the same stream in turn
DecodeMembers(types, i, fl, ct, data, pos, acc) ==
    IF i > Len(types) THEN Ok([t |-> "list", elements |-> acc], pos, 0)
    ELSE Bind(TypeDecode(types[i], fl, ct, data, pos, <<>>), LAMBDA member :
         DecodeMembers(types, i + 1, fl, ct, data, member.pos,
                       Append(acc, member.val)))

\* type.decode(istream, fsw_dict, length) for a type of the namespace
TypeDecode(ty, fl, ct, data, pos, length) ==
    CASE ty.kind = "fundamental" -> FundamentalDecode(ty.name, data, pos)
      [] ty.kind = "bool" -> BoolDecode(fl, data, pos)
      [] ty.kind = "string" -> StringDecode(ct, data, pos, length)
      [] ty.kind = "enum" ->
             EnumDecode(ty.name, ty.underlying, ty.members, data, pos)
      [] ty.kind = "array" ->
             Bind(DecodeMembers([i \in 1..ty.size |-> ty.element_type], 1,
                                fl, ct, data, pos, <<>>), LAMBDA elements :
             Ok([t |-> ty.name, elements |-> elements.val.elements],
                elements.pos, 0))
      [] ty.kind = "serializable" ->
             Bind(DecodeMembers(ty.member_defs, 1, fl, ct, data, pos, <<>>),
                  LAMBDA members :
             Ok([t |-> ty.name, members |-> members.val.elements],
                members.pos, 0))

RECURSIVE DecodeArguments(_, _, _, _, _, _, _)
\* the loop over command.args / event.args: None for an argument whose
\* type is unbound, else the argument decoded from the raw-arguments stream
DecodeArguments(args, i, fl, ct, data, pos, acc) ==
    IF i > Len(args) THEN Ok([t |-> "list", elements |-> acc], pos, 0)
    ELSE IF args[i].type = NoType
         THEN DecodeArguments(args, i + 1, fl, ct, data, pos,
                              Append(acc, None))
         ELSE Bind(TypeDecode(args[i].type, fl, ct, data, pos,
                              args[i].length), LAMBDA arg :
              DecodeArguments(args, i + 1, fl, ct, data, arg.pos,
                              Append(acc, arg.val)))

\* dict.get(key, None) on one of the by-ID indexes
Lookup(index, key) == IF key \in DOMAIN index THEN index[key] ELSE None

\* DictionaryEntry with the warning lost
DictionaryEntry_Silent(loaded, entry) == Ok(entry, 0, 0)

\* the dictionary entry of a packet's ID: None without a dictionary; one
\* line on sys.stderr when a loaded dictionary has no entry for the ID
DictionaryEntry(loaded, entry) ==
    Ok(entry, 0, IF loaded /\ entry = None THEN 1 ELSE 0)

CommandOf(dict, opcode) ==
    DictionaryEntry(dict.loaded,
                    IF dict.loaded THEN Lookup(dict.commands_by_opcode, opcode)
                    ELSE None)

ChannelOf(dict, id) ==
    DictionaryEntry(dict.loaded,
                    IF dict.loaded THEN Lookup(dict.channels_by_id, id)
                    ELSE None)

EventOf(dict, id) ==
    DictionaryEntry(dict.loaded,
                    IF dict.loaded THEN Lookup(dict.events_by_id, id)
                    ELSE None)

\* arguments of a command or an event, decoded from the raw arguments when
\* the dictionary has the entry
ArgumentsOf(entry, fl, ct, raw) ==
    IF entry # None
    THEN DecodeArguments(entry.args, 1, fl, ct, raw, 0, <<>>)
    ELSE Ok(None, 0, 0)

\* value of a channel, decoded from the raw value when the dictionary has
\* the channel and its type is bound
ValueOf(channel, fl, ct, raw) ==
    IF channel # None /\ channel.type # NoType
    THEN TypeDecode(channel.type, fl, ct, raw, 0, <<>>)
    ELSE Ok(None, 0, 0)

-----------------------------------------------------------------------------
(* Command, telemetry and event packets *)

CommandPacketDecode(fl, ct, dict, data, pos) ==
    Bind(FundamentalDecode(ct.FwOpcodeType, data, pos), LAMBDA opcode :
    Bind(BufferDecode(data, opcode.pos, -1), LAMBDA arguments_raw :
    Bind(CommandOf(dict, opcode.val.value), LAMBDA command :
    Bind(Outer(ArgumentsOf(command.val, fl, ct, arguments_raw.val.data),
               arguments_raw.pos, command.warn), LAMBDA arguments :
    Ok([t |-> "CommandPacket",
        opcode |-> opcode.val,
        arguments_raw |-> arguments_raw.val,
        command |-> command.val,
        arguments |-> arguments.val],
       arguments.pos, arguments.warn)))))

CommandPacketEncode(ct, self, out) ==
    IF self.opcode.t # ct.FwOpcodeType THEN EncRaise("AssertionError", out)
    ELSE Bind(FundamentalEncode(self.opcode, out), LAMBDA opcode :
         BufferEncode(self.arguments_raw, opcode.out))

TelemPacketDecode(fl, ct, dict, data, pos) ==
    Bind(FundamentalDecode(ct.FwChanIdType, data, pos), LAMBDA id :
    Bind(TimeDecode(fl, ct, data, id.pos), LAMBDA time :
    Bind(BufferDecode(data, time.pos, -1), LAMBDA value_raw :
    Bind(ChannelOf(dict, id.val.value), LAMBDA channel :
    Bind(Outer(ValueOf(channel.val, fl, ct, value_raw.val.data),
               value_raw.pos, channel.warn), LAMBDA value :
    Ok([t |-> "TelemPacket",
        id |-> id.val,
        time |-> time.val,
        value_raw |-> value_raw.val,
        channel |-> channel.val,
        value |-> value.val],
       value.pos, value.warn))))))

TelemPacketEncode(fl, ct, self, out) ==
    IF self.id.t # ct.FwChanIdType THEN EncRaise("AssertionError", out)
    ELSE Bind(FundamentalEncode(self.id, out), LAMBDA id :
         Bind(TimeEncode(fl, ct, self.time, id.out), LAMBDA time :
         BufferEncode(self.value_raw, time.out)))

EventPacketDecode(fl, ct, dict, data, pos) ==
    Bind(FundamentalDecode(ct.FwEventIdType, data, pos), LAMBDA id :
    Bind(TimeDecode(fl, ct, data, id.pos), LAMBDA time :
    Bind(BufferDecode(data, time.pos, -1), LAMBDA arguments_raw :
    Bind(EventOf(dict, id.val.value), LAMBDA event :
    Bind(Outer(ArgumentsOf(event.val, fl, ct, arguments_raw.val.data),
               arguments_raw.pos, event.warn), LAMBDA arguments :
    Ok([t |-> "EventPacket",
        id |-> id.val,
        time |-> time.val,
        arguments_raw |-> arguments_raw.val,
        event |-> event.val,
        arguments |-> arguments.val],
       arguments.pos, arguments.warn))))))

EventPacketEncode(fl, ct, self, out) ==
    IF self.id.t # ct.FwEventIdType THEN EncRaise("AssertionError", out)
    ELSE Bind(FundamentalEncode(self.id, out), LAMBDA id :
         Bind(TimeEncode(fl, ct, self.time, id.out), LAMBDA time :
         BufferEncode(self.arguments_raw, time.out)))

-----------------------------------------------------------------------------
(* File packets *)

FilePacketPathNameDecode(data, pos) ==
    Bind(FundamentalDecode("U8", data, pos), LAMBDA length :
    Bind(AsciiBufferDecode(data, length.pos, length.val.value),
         LAMBDA value :
    Ok([t |-> "FilePacketPathName",
        length |-> length.val,
        value |-> value.val],
       value.pos, 0)))

\* assert len(self.value) == self.length compares an int with a U8 object,
\* which is never equal: the assertion fails for every path name
FilePacketPathNameEncode(self, out) == EncRaise("AssertionError", out)

FilePacketStartPayloadDecode(data, pos) ==
    Bind(FundamentalDecode("U32", data, pos), LAMBDA file_size :
    Bind(FilePacketPathNameDecode(data, file_size.pos), LAMBDA source_path :
    Bind(FilePacketPathNameDecode(data, source_path.pos),
         LAMBDA destination_path :
    Ok([t |-> "FilePacketStartPayload",
        file_size |-> file_size.val,
        source_path |-> source_path.val,
        destination_path |-> destination_path.val],
       destination_path.pos, 0))))

FilePacketStartPayloadEncode(self, out) ==
    Bind(FundamentalEncode(self.file_size, out), LAMBDA file_size :
    Bind(FilePacketPathNameEncode(self.source_path, file_size.out),
         LAMBDA source_path :
    FilePacketPathNameEncode(self.destination_path, source_path.out)))

FilePacketDataPayloadDecode(data, pos) ==
    Bind(FundamentalDecode("U32", data, pos), LAMBDA byte_offset :
    Bind(FundamentalDecode("U16", data, byte_offset.pos), LAMBDA data_size :
    Bind(BufferDecode(data, data_size.pos, data_size.val.value),
         LAMBDA buf :
    Ok([t |-> "FilePacketDataPayload",
        byte_offset |-> byte_offset.val,
        data_size |-> data_size.val,
        data |-> buf.val],
       buf.pos, 0))))

FilePacketDataPayloadEncode(self, out) ==
    Bind(FundamentalEncode(self.byte_offset, out), LAMBDA byte_offset :
    Bind(FundamentalEncode(self.data_size, byte_offset.out),
         LAMBDA data_size :
    BufferEncode(self.data, data_size.out)))

FilePacketEndPayloadDecode(data, pos) ==
    Bind(FundamentalDecode("U32", data, pos), LAMBDA checksum :
    Ok([t |-> "FilePacketEndPayload", checksum |-> checksum.val],
       checksum.pos, 0))

FilePacketEndPayloadEncode(self, out) == FundamentalEncode(self.checksum, out)

FilePacketCancelPayloadDecode(data, pos) ==
    Ok([t |-> "FilePacketCancelPayload"], pos, 0)

FilePacketCancelPayloadEncode(self, out) == Written(out)

\* FilePacket.Type: START, DATA, END, CANCEL, NONE
FilePacketTypeMembers == {0, 1, 2, 3, 255}

\* the payload decoder the dictionary literal of FilePacket.decode holds for
\* the sub-type; it has no entry for NONE
FilePacketPayloadDecode(type, data, pos) ==
    CASE type.value = 0 -> FilePacketStartPayloadDecode(data, pos)
      [] type.value = 1 -> FilePacketDataPayloadDecode(data, pos)
      [] type.value = 2 -> FilePacketEndPayloadDecode(data, pos)
      [] type.value = 3 -> FilePacketCancelPayloadDecode(data, pos)
      [] OTHER -> Raise("KeyError", pos, 0)

\* FilePacketDecode with the two U32 fields of a START packet exchanged:
\* the first is taken as the file size and the second as the sequence index
FilePacketDecode_SizeBeforeSequence(data, pos) ==
    Bind(EnumDecode("FilePacket.Type", "U8", FilePacketTypeMembers,
                    data, pos), LAMBDA type :
    Bind(FundamentalDecode("U32", data, type.pos), LAMBDA sequence_index :
    Bind(FilePacketPayloadDecode(type.val, data, sequence_index.pos),
         LAMBDA payload :
    Ok([t |-> "FilePacket",
        type |-> type.val,
        sequence_index |-> IF type.val.value = 0 THEN payload.val.file_size
                           ELSE sequence_index.val,
        payload |-> IF type.val.value = 0
                    THEN [payload.val EXCEPT !.file_size = sequence_index.val]
                    ELSE payload.val],
       payload.pos, 0))))

FilePacketDecode(data, pos) ==
    Bind(EnumDecode("FilePacket.Type", "U8", FilePacketTypeMembers,
                    data, pos), LAMBDA type :
    Bind(FundamentalDecode("U32", data, type.pos), LAMBDA sequence_index :
    Bind(FilePacketPayloadDecode(type.val, data, sequence_index.pos),
         LAMBDA payload :
    Ok([t |-> "FilePacket",
        type |-> type.val,
        sequence_index |-> sequence_index.val,
        payload |-> payload.val],
       payload.pos, 0))))

\* the payload class FilePacket.encode asserts for each sub-type
FilePacketPayloadClass(type) ==
    CASE type.value = 0 -> "FilePacketStartPayload"
      [] type.value = 1 -> "FilePacketDataPayload"
      [] type.value = 2 -> "FilePacketEndPayload"
      [] type.value = 3 -> "FilePacketCancelPayload"
      [] OTHER -> "KeyError"

FilePacketPayloadEncode(self, out) ==
    CASE self.t = "FilePacketStartPayload" ->
             FilePacketStartPayloadEncode(self, out)
      [] self.t = "FilePacketDataPayload" ->
             FilePacketDataPayloadEncode(self, out)
      [] self.t = "FilePacketEndPayload" ->
             FilePacketEndPayloadEncode(self, out)
      [] self.t = "FilePacketCancelPayload" ->
             FilePacketCancelPayloadEncode(self, out)

FilePacketEncode(self, out) ==
    IF \/ self.type.t # "FilePacket.Type"
       \/ self.sequence_index.t # "U32"
    THEN EncRaise("AssertionError", out)
    ELSE IF FilePacketPayloadClass(self.type) = "KeyError"
    THEN EncRaise("KeyError", out)
    ELSE IF self.payload.t # FilePacketPayloadClass(self.type)
    THEN EncRaise("AssertionError", out)
    ELSE Bind(EnumEncode("U8", self.type, out), LAMBDA type :
         Bind(FundamentalEncode(self.sequence_index, type.out),
              LAMBDA sequence_index :
         FilePacketPayloadEncode(self.payload, sequence_index.out)))

-----------------------------------------------------------------------------
(* Packet *)

\* Packet.Type: COMMAND, TELEM, LOG, FILE, PACKETIZED_TLM, IDLE, UNKNOWN
PacketTypeMembers == {0, 1, 2, 3, 4, 5, 255}

\* The decorator enum_represented_as(FwPacketDescriptorType) runs once, when
\* the class body of Packet is executed at import: it closes over the type
\* the alias names at that time, the default of fprime_configurable_types.
PacketTypeUnderlying == fprime_configurable_types.FwPacketDescriptorType

PacketTypeDecode(data, pos) ==
    EnumDecode("Packet.Type", PacketTypeUnderlying, PacketTypeMembers,
               data, pos)

\* Packet.decode changed to let the ValueError of an unknown tag propagate
CatchValueError_Propagates(tag) == tag

\* except ValueError: one warning on sys.stderr, and a placeholder that
\* carries the unknown tag's number stands for the type
CatchValueError(tag) ==
    IF tag.st = "ValueError"
    THEN Ok([t |-> "SimpleNamespace", value |-> tag.arg], tag.pos, 1)
    ELSE tag

\* the payload decoder chosen by the chain of comparisons with the members
\* of Packet.Type; the placeholder made for an unknown tag equals none
PacketPayloadDecode(type, fl, ct, dict, data, pos) ==
    IF type.t = "Packet.Type" /\ type.value = 0
    THEN CommandPacketDecode(fl, ct, dict, data, pos)
    ELSE IF type.t = "Packet.Type" /\ type.value = 1
    THEN TelemPacketDecode(fl, ct, dict, data, pos)
    ELSE IF type.t = "Packet.Type" /\ type.value = 2
    THEN EventPacketDecode(fl, ct, dict, data, pos)
    ELSE IF type.t = "Packet.Type" /\ type.value = 3
    THEN FilePacketDecode(data, pos)
    ELSE BufferDecode(data, pos, -1)

\* the outcome of a call made after warn lines were written to sys.stderr
AfterWarnings(r, warn) == [r EXCEPT !.warn = @ + warn]

PacketDecode(fl, ct, dict, data, pos) ==
    Bind(CatchValueError(PacketTypeDecode(data, pos)), LAMBDA type :
    Bind(AfterWarnings(PacketPayloadDecode(type.val, fl, ct, dict, data,
                                           type.pos), type.warn),
         LAMBDA payload :
    Ok([t |-> "Packet", type |-> type.val, payload |-> payload.val],
       payload.pos, payload.warn)))

PayloadEncode(fl, ct, self, out) ==
    CASE self.t = "CommandPacket" -> CommandPacketEncode(ct, self, out)
      [] self.t = "TelemPacket" -> TelemPacketEncode(fl, ct, self, out)
      [] self.t = "EventPacket" -> EventPacketEncode(fl, ct, self, out)
      [] self.t = "FilePacket" -> FilePacketEncode(self, out)
      [] self.t = "Buffer" -> BufferEncode(self, out)

\* the payload class Packet.encode asserts for each packet type
PayloadClass(type) ==
    CASE type.value = 0 -> "CommandPacket"
      [] type.value = 1 -> "TelemPacket"
      [] type.value = 2 -> "EventPacket"
      [] type.value = 3 -> "FilePacket"
      [] OTHER -> "Buffer"

PacketEncode(fl, ct, self, out) ==
    IF \/ self.type.t # "Packet.Type"
       \/ self.payload.t # PayloadClass(self.type)
    THEN EncRaise("AssertionError", out)
    ELSE Bind(EnumEncode(PacketTypeUnderlying, self.type, out), LAMBDA type :
         PayloadEncode(fl, ct, self.payload, type.out))

-----------------------------------------------------------------------------
(* Record types *)

\* create_record_class(name, packet_size_type)
RecordNames == {"ComLoggerRecord", "FprimeGdsRecord"}
packet_size_type(name) ==
    CASE name = "ComLoggerRecord" -> "U16"
      [] name = "FprimeGdsRecord" -> "U32"

\* a packet buffer that is one byte longer than the size field says
PacketBuffer_OneByteMore(data, pos, packet_size) ==
    Read(data, pos, packet_size + 1)

\* the bytes Record.decode slices off the input stream for the packet
PacketBuffer(data, pos, packet_size) == Read(data, pos, packet_size)

\* Packet.decode on a stream of its own that holds packet_buffer; the
\* input stream is left after the bytes sliced off
PacketOfBuffer(fl, ct, dict, packet_buffer, pos) ==
    Outer(PacketDecode(fl, ct, dict, packet_buffer, 0),
          pos + Len(packet_buffer), 0)

RecordDecode(name, fl, ct, dict, data, pos) ==
    Bind(FundamentalDecode(packet_size_type(name), data, pos),
         LAMBDA packet_size :
    Bind(PacketOfBuffer(fl, ct, dict,
                        PacketBuffer(data, packet_size.pos,
                                     packet_size.val.value),
                        packet_size.pos), LAMBDA packet :
    Ok([t |-> name,
        offset |-> pos,
        packet_size |-> packet_size.val,
        packet |-> packet.val],
       packet.pos, packet.warn)))

RecordEncode(fl, ct, self, out) ==
    IF self.packet_size.t # packet_size_type(self.t)
    THEN EncRaise("AssertionError", out)
    ELSE Bind(FundamentalEncode(self.packet_size, out), LAMBDA packet_size :
         PacketEncode(fl, ct, self.packet, packet_size.out))

-----------------------------------------------------------------------------
(* read_until_sync_word *)

FprimeGdsStream_sync_word == <<222, 173, 190, 239>>
PrmDbRecord_sync_word == <<165>>

\* the locals of read_until_sync_word on entry, reading from position pos
ScanStart(sync_word, pos) ==
    [sync_word |-> sync_word,
     sync_word_index |-> 0,
     read_next |-> TRUE,
     buf |-> <<>>,
     pos |-> pos,
     st |-> "running"]

ScanIdle == [ScanStart(<<>>, 0) EXCEPT !.st = "idle"]

\* ScanStep with the rollback lost: after a partial match fails, the byte
\* that broke it is dropped instead of being compared again
ScanStep_DropsBreakingByte(data, s) ==
    IF ~(s.sync_word_index < Len(s.sync_word))
    THEN [s EXCEPT !.st = "returned"]
    ELSE
    LET got == Read(data, s.pos, 1)
    IN IF Len(got) = 0 THEN [s EXCEPT !.st = "BrokenPipeError"]
       ELSE
       LET s1 == [s EXCEPT !.buf = got, !.pos = s.pos + 1]
       IN IF got[1] = s.sync_word[s.sync_word_index + 1]
          THEN [s1 EXCEPT !.sync_word_index = @ + 1, !.read_next = TRUE]
          ELSE [s1 EXCEPT !.sync_word_index = 0, !.read_next = TRUE]

\* ScanStep with the end-of-stream test lost: an empty read ends the scan
\* as if the sync word had been found
ScanStep_ReturnsAtEndOfStream(data, s) ==
    IF ~(s.sync_word_index < Len(s.sync_word))
    THEN [s EXCEPT !.st = "returned"]
    ELSE
    LET got == IF s.read_next THEN Read(data, s.pos, 1) ELSE s.buf
    IN IF Len(got) = 0 THEN [s EXCEPT !.st = "returned"]
       ELSE
       LET s1 == [s EXCEPT !.buf = got, !.pos = s.pos + (IF s.read_next THEN 1 ELSE 0)]
       IN IF got[1] = s.sync_word[s.sync_word_index + 1]
          THEN [s1 EXCEPT !.sync_word_index = @ + 1, !.read_next = TRUE]
          ELSE IF s.sync_word_index > 0
               THEN [s1 EXCEPT !.sync_word_index = 0, !.read_next = FALSE]
               ELSE [s1 EXCEPT !.read_next = TRUE]

\* one test of the loop condition and, when it holds, one run of the body
ScanStep(data, s) ==
    IF ~(s.sync_word_index < Len(s.sync_word))
    THEN [s EXCEPT !.st = "returned"]
    ELSE
    LET got == IF s.read_next THEN Read(data, s.pos, 1) ELSE s.buf
    IN IF Len(got) = 0 THEN [s EXCEPT !.st = "BrokenPipeError"]
       ELSE
       LET s1 == [s EXCEPT !.buf = got, !.pos = s.pos + (IF s.read_next THEN 1 ELSE 0)]
       IN IF got[1] = s.sync_word[s.sync_word_index + 1]
          THEN [s1 EXCEPT !.sync_word_index = @ + 1, !.read_next = TRUE]
          ELSE IF s.sync_word_index > 0
               THEN [s1 EXCEPT !.sync_word_index = 0, !.read_next = FALSE]
               ELSE [s1 EXCEPT !.read_next = TRUE]

RECURSIVE ScanRun(_, _)
ScanRun(data, s) ==
    IF s.st # "running" THEN s ELSE ScanRun(data, ScanStep(data, s))

\* the whole call: where the stream stands when it returns, or the exception
read_until_sync_word(data, pos, sync_word) ==
    LET s == ScanRun(data, ScanStart(sync_word, pos))
    IN IF s.st = "returned" THEN Ok(None, s.pos, 0)
       ELSE Raise(s.st, s.pos, 0)

-----------------------------------------------------------------------------
(* Values of the variables a specification does not use *)

NoResult == [st |-> "none", pos |-> 0, warn |-> 0]
NoOutput == [st |-> "none", out |-> <<>>]

\* all sequences over S of length at most n
SeqsUpTo(S, n) == UNION {[1..k -> S] : k \in 0..n}

-----------------------------------------------------------------------------
(* SpecScan: read_until_sync_word run on its own, one loop iteration per   *)
(* step, over every stream of bytes of the sync words up to MaxScanLen.    *)

\* the sync words of the program, and two words a caller may pass that
\* start with a repeated byte: AA AB and AA AA AB
ScanSyncWords ==
    {FprimeGdsStream_sync_word, PrmDbRecord_sync_word,
     <<170, 171>>, <<170, 170, 171>>}

\* the bytes of the sync word, each of which breaks a match at every other
\* position of the word, and for the one-byte word a byte that is not in it
ScanAlphabet(sync_word) ==
    {sync_word[i] : i \in 1..Len(sync_word)}
        \cup (IF sync_word = PrmDbRecord_sync_word THEN {222} ELSE {})

InitScan ==
    /\ flags = fprime_configurable_flags
    /\ ctypes = fprime_configurable_types
    /\ fsw_dict = NoDict
    /\ record_type = "none"
    /\ \E sync_word \in ScanSyncWords :
           \E data \in SeqsUpTo(ScanAlphabet(sync_word), MaxScanLen) :
               /\ istream = [data |-> data, pos |-> 0]
               /\ scan = ScanStart(sync_word, 0)
    /\ pc = "scan"
    /\ result = NoResult
    /\ record_index = 0
    /\ stderr = 0
    /\ ostream = NoOutput
    /\ redecoded = NoResult
    /\ output_format = "vnlog"

ReadUntilSyncWordStep ==
    /\ pc = "scan"
    /\ scan.st = "running"
    /\ scan' = ScanStep(istream.data, scan)
    /\ istream' = [istream EXCEPT !.pos = scan'.pos]
    /\ UNCHANGED <<flags, ctypes, fsw_dict, record_type, pc, result,
                   record_index, stderr, ostream, redecoded, output_format>>

NextScan == ReadUntilSyncWordStep

SpecScan == InitScan /\ [][NextScan]_vars

\* The call is one uninterrupted run of a single thread: an iteration that
\* can be taken is taken.
SpecScanFair == SpecScan /\ WF_vars(ReadUntilSyncWordStep)

\* whether word occurs in data at offset i (0-based)
OccursAt(data, word, i) ==
    /\ i + Len(word) <= Len(data)
    /\ SubSeq(data, i + 1, i + Len(word)) = word

HasOccurrence(data, word) ==
    \E i \in 0..Len(data) : OccursAt(data, word, i)

\* offset of the first occurrence of word in data
FirstOccurrence(data, word) ==
    CHOOSE i \in 0..Len(data) :
        /\ OccursAt(data, word, i)
        /\ \A j \in 0..(i - 1) : ~OccursAt(data, word, j)

\* C7: with the sync word DE AD BE EF, a scan of a stream X ++ SYNC ++ Y
\* whose first occurrence of SYNC starts at |X| returns, and whenever the
\* scan returns it has consumed exactly |X| + |SYNC| bytes; a stream that
\* holds the sync word never makes the scan raise.
C7_SyncScanConsumesPrefixAndWord ==
    (pc = "scan" /\ scan.sync_word = FprimeGdsStream_sync_word) =>
        /\ scan.st = "returned" =>
               /\ HasOccurrence(istream.data, scan.sync_word)
               /\ istream.pos = FirstOccurrence(istream.data, scan.sync_word)
                                    + Len(scan.sync_word)
        /\ scan.st = "BrokenPipeError" =>
               ~HasOccurrence(istream.data, scan.sync_word)

\* the scan of DE AD DE AD BE EF has returned with the stream at its end
C7_Witness ==
    /\ pc = "scan"
    /\ istream.data = <<222, 173, 222, 173, 190, 239>>
    /\ scan.sync_word = FprimeGdsStream_sync_word
    /\ scan.st = "returned"
    /\ istream.pos = Len(istream.data)

\* C8: when the stream holds no occurrence of the sync word (also when it
\* ends in a proper prefix of it), the scan ends by raising BrokenPipeError.
C8_ScanRaisesAtEndOfStream ==
    (pc = "scan" /\ ~HasOccurrence(istream.data, scan.sync_word))
        ~> (scan.st = "BrokenPipeError")

\* the scan of a stream ending in the proper prefix DE AD BE has raised
C8_Witness ==
    /\ pc = "scan"
    /\ istream.data = <<239, 222, 173, 190>>
    /\ scan.sync_word = FprimeGdsStream_sync_word
    /\ scan.st = "BrokenPipeError"

\* C26: for every non-empty sync word, a scan of a stream that holds the
\* word returns, and has then consumed exactly the bytes up to and
\* including the first occurrence of the word; it never raises on such a
\* stream.
C26_ScanFindsFirstOccurrenceOfAnyWord ==
    (pc = "scan" /\ HasOccurrence(istream.data, scan.sync_word)) =>
        /\ scan.st # "BrokenPipeError"
        /\ scan.st = "returned" =>
               istream.pos = FirstOccurrence(istream.data, scan.sync_word)
                                 + Len(scan.sync_word)

-----------------------------------------------------------------------------
(* FswDictionary.  The definitions of a dictionary are kept in the order    *)
(* of insertion, as the Python dicts keep them; each carries its dict key   *)
(* in key.  A command, event, channel or parameter also carries in uid the  *)
(* identity of the Python object: a by-key dict and a by-ID dict may hold   *)
(* the same object, or two objects that are equal in every attribute.       *)
(* warn counts the lines the parse calls wrote to sys.stderr and files the  *)
(* parse calls made.                                                        *)

\* fp_types, of which the model uses these names
initial_types ==
    [name \in FundamentalNames |-> FundamentalT(name)]
        @@ ("bool" :> BoolT) @@ ("string" :> StringT)

\* FswDictionary(fp_types)
FswDictionary ==
    [loaded |-> TRUE,
     enums |-> <<>>,
     serializables |-> <<>>,
     arrays |-> <<>>,
     commands |-> <<>>,
     commands_by_opcode |-> <<>>,
     events |-> <<>>,
     events_by_id |-> <<>>,
     channels |-> <<>>,
     channels_by_id |-> <<>>,
     parameters |-> <<>>,
     parameters_by_id |-> <<>>,
     types |-> initial_types,
     warn |-> 0,
     files |-> 0]

\* the objects the constructors of the definition classes build from the
\* XML elements; every type starts unbound, and parse gives the object its
\* identity
Enum(name, items) ==
    [key |-> name, name |-> name, items |-> items, type |-> NoType]
Member(type_str) == [type_str |-> type_str, type |-> NoType]
Serializable(name, members) ==
    [key |-> name, name |-> name, members |-> members, type |-> NoType]
Array(name, element_type_str, size) ==
    [key |-> name, name |-> name, element_type_str |-> element_type_str,
     size |-> size, type |-> NoType]
ArgumentDef(type_str, length) ==
    [type_str |-> type_str, length |-> length, type |-> NoType]
Command(component, mnemonic, opcode, args) ==
    [key |-> <<component, mnemonic>>, opcode |-> opcode, args |-> args,
     uid |-> <<>>]
Event(component, name, id, args) ==
    [key |-> <<component, name>>, id |-> id, args |-> args, uid |-> <<>>]
Channel(component, name, id, type_str) ==
    [key |-> <<component, name>>, id |-> id, type_str |-> type_str,
     type |-> NoType, uid |-> <<>>]
Parameter(component, name, id) ==
    [key |-> <<component, name>>, id |-> id,
     set_command_id |-> <<component, name \o "_PRM_SET">>,
     type_str |-> "None", type |-> NoType, uid |-> <<>>]

\* self.<collection>[key] = item: a new key is appended, a key the dict
\* has keeps its place and gets the new item
Put(items, item) ==
    IF \E i \in DOMAIN items : items[i].key = item.key
    THEN [i \in DOMAIN items |->
             IF items[i].key = item.key THEN item ELSE items[i]]
    ELSE Append(items, item)

RECURSIVE PutAll(_, _)
PutAll(items, new) ==
    IF new = <<>> THEN items
    ELSE PutAll(Put(items, Head(new)), Tail(new))

\* the objects parse builds from the elements of one collection of the
\* n-th file
Built(elems, n) ==
    [i \in DOMAIN elems |-> [elems[i] EXCEPT !.uid = <<n, i>>]]

\* self.commands_by_opcode[command.opcode] = command, and for the other
\* kinds self.<collection>_by_id[item.id] = item, for each object in turn:
\* an entry is added or replaced, and none is ever removed
RECURSIVE IndexByOpcode(_, _)
IndexByOpcode(index, new) ==
    IF new = <<>> THEN index
    ELSE IndexByOpcode((Head(new).opcode :> Head(new)) @@ index, Tail(new))
RECURSIVE IndexById(_, _)
IndexById(index, new) ==
    IF new = <<>> THEN index
    ELSE IndexById((Head(new).id :> Head(new)) @@ index, Tail(new))

\* the first loop of parse: the elements of the file are added to the
\* collections, and the commands, events, channels and parameters to the
\* by-ID dicts as well
AddDefinitions(d, file) ==
    [d EXCEPT !.enums = PutAll(@, file.enums),
              !.serializables = PutAll(@, file.serializables),
              !.arrays = PutAll(@, file.arrays),
              !.commands = PutAll(@, Built(file.commands, d.files)),
              !.commands_by_opcode =
                  IndexByOpcode(@, Built(file.commands, d.files)),
              !.events = PutAll(@, Built(file.events, d.files)),
              !.events_by_id = IndexById(@, Built(file.events, d.files)),
              !.channels = PutAll(@, Built(file.channels, d.files)),
              !.channels_by_id = IndexById(@, Built(file.channels, d.files)),
              !.parameters = PutAll(@, Built(file.parameters, d.files)),
              !.parameters_by_id =
                  IndexById(@, Built(file.parameters, d.files))]

register_type(d, type_name, type) ==
    [d EXCEPT !.types = (type_name :> type) @@ @,
              !.warn = @ + (IF type_name \in DOMAIN d.types THEN 1 ELSE 0)]

\* the lookups "if x.type_str not in self.types: warning; continue" and
\* "x.type = self.types[x.type_str]" over a list of members, arguments or
\* channels
LookUpTypes(xs, types) ==
    [j \in DOMAIN xs |->
        IF xs[j].type_str \in DOMAIN types
        THEN [xs[j] EXCEPT !.type = types[xs[j].type_str]]
        ELSE xs[j]]

\* the number of warnings those lookups write
Missing(xs, types) ==
    Cardinality({j \in DOMAIN xs : xs[j].type_str \notin DOMAIN types})

EnumTypeOf(enum_def, ct) ==
    EnumT(enum_def.name, ct.FwEnumStoreType, enum_def.items)

RECURSIVE ConstructEnums(_, _, _)
\* the first loop of construct_types, from the i-th enum on.  FwEnumStoreType
\* is the global of that name at the time of the call.
ConstructEnums(d, i, ct) ==
    IF i > Len(d.enums) THEN d
    ELSE IF d.enums[i].type # NoType THEN ConstructEnums(d, i + 1, ct)
    ELSE ConstructEnums(
             register_type(
                 [d EXCEPT !.enums[i].type = EnumTypeOf(d.enums[i], ct)],
                 d.enums[i].name, EnumTypeOf(d.enums[i], ct)),
             i + 1, ct)

SerializableTypeOf(name, members) ==
    SerializableT(name, [j \in DOMAIN members |-> members[j].type])

\* one run of the body of the second loop, members being the members after
\* their lookup: either a member is still unbound and the serializable is
\* left unbound, or its type is made and registered
ConstructSerializable(d, i, members) ==
    IF \E j \in DOMAIN members : members[j].type = NoType
    THEN [d EXCEPT !.serializables[i].members = members,
                   !.warn = @ + Missing(d.serializables[i].members, d.types)
                              + 1]
    ELSE register_type(
             [d EXCEPT !.serializables[i].members = members,
                       !.serializables[i].type =
                           SerializableTypeOf(d.serializables[i].name, members),
                       !.warn = @ + Missing(d.serializables[i].members,
                                            d.types)],
             d.serializables[i].name,
             SerializableTypeOf(d.serializables[i].name, members))

RECURSIVE ConstructSerializables(_, _)
\* the second loop of construct_types, from the i-th serializable on
ConstructSerializables(d, i) ==
    IF i > Len(d.serializables) THEN d
    ELSE IF d.serializables[i].type # NoType
         THEN ConstructSerializables(d, i + 1)
         ELSE ConstructSerializables(
                  ConstructSerializable(
                      d, i, LookUpTypes(d.serializables[i].members, d.types)),
                  i + 1)

ArrayTypeOf(array_def, types) ==
    ArrayT(array_def.name, types[array_def.element_type_str], array_def.size)

RECURSIVE ConstructArrays(_, _)
\* the third loop of construct_types, from the i-th array on
ConstructArrays(d, i) ==
    IF i > Len(d.arrays) THEN d
    ELSE IF d.arrays[i].type # NoType THEN ConstructArrays(d, i + 1)
    ELSE IF d.arrays[i].element_type_str \notin DOMAIN d.types
         THEN ConstructArrays([d EXCEPT !.warn = @ + 1], i + 1)
         ELSE ConstructArrays(
                  register_type(
                      [d EXCEPT !.arrays[i].type =
                                    ArrayTypeOf(d.arrays[i], d.types)],
                      d.arrays[i].name, ArrayTypeOf(d.arrays[i], d.types)),
                  i + 1)

\* enums, then serializables, then arrays
construct_types(d, ct) ==
    ConstructArrays(ConstructSerializables(ConstructEnums(d, 1, ct), 1), 1)

\* the loops of resolve_types over the arguments of commands or events
ResolveArguments(items, types) ==
    [i \in DOMAIN items |-> [items[i] EXCEPT !.args = LookUpTypes(@, types)]]

RECURSIVE MissingArguments(_, _)
MissingArguments(items, types) ==
    IF items = <<>> THEN 0
    ELSE Missing(Head(items).args, types)
             + MissingArguments(Tail(items), types)

\* self.commands.get(parameter.set_command_id, None)
set_command(commands, parameter) ==
    IF \E i \in DOMAIN commands : commands[i].key = parameter.set_command_id
    THEN commands[CHOOSE i \in DOMAIN commands :
                      commands[i].key = parameter.set_command_id]
    ELSE None

\* whether the loop over the parameters binds this one; it writes a warning
\* and goes on to the next when the command is missing or has not exactly
\* one argument
HasSetCommand(commands, parameter) ==
    /\ set_command(commands, parameter) # None
    /\ Len(set_command(commands, parameter).args) = 1

\* ResolveParameter with the test of the number of arguments lost: the
\* first argument of a command of several binds the parameter
ResolveParameter_AnyArgumentCount(commands, parameter) ==
    IF /\ set_command(commands, parameter) # None
       /\ Len(set_command(commands, parameter).args) >= 1
    THEN [parameter EXCEPT
              !.type_str = set_command(commands, parameter).args[1].type_str,
              !.type = set_command(commands, parameter).args[1].type]
    ELSE parameter

\* the body of the loop over the parameters; commands are the commands
\* after the loop over them
ResolveParameter(commands, parameter) ==
    IF HasSetCommand(commands, parameter)
    THEN [parameter EXCEPT
              !.type_str = set_command(commands, parameter).args[1].type_str,
              !.type = set_command(commands, parameter).args[1].type]
    ELSE parameter

resolve_types(d) ==
    [d EXCEPT
        !.commands = ResolveArguments(@, d.types),
        !.events = ResolveArguments(@, d.types),
        !.channels = LookUpTypes(@, d.types),
        !.parameters =
            [i \in DOMAIN @ |->
                ResolveParameter(ResolveArguments(d.commands, d.types), @[i])],
        !.warn = @ + MissingArguments(d.commands, d.types)
                   + MissingArguments(d.events, d.types)
                   + Missing(d.channels, d.types)
                   + Cardinality(
                         {i \in DOMAIN d.parameters :
                             ~HasSetCommand(d.commands, d.parameters[i])})]

\* an object of a by-ID dict that is also in the by-key dict is one object:
\* it shows what construct_types and resolve_types bound to it.  An object
\* that its key no longer leads to stays as it was.
Shared(index, items) ==
    [id \in DOMAIN index |->
        IF \E i \in DOMAIN items : items[i].uid = index[id].uid
        THEN items[CHOOSE i \in DOMAIN items : items[i].uid = index[id].uid]
        ELSE index[id]]
Indexed(d) ==
    [d EXCEPT !.commands_by_opcode = Shared(@, d.commands),
              !.events_by_id = Shared(@, d.events),
              !.channels_by_id = Shared(@, d.channels),
              !.parameters_by_id = Shared(@, d.parameters)]

\* fsw_dict.parse(file): the dictionary after the call
parse(d, file, ct) ==
    [Indexed(resolve_types(construct_types(AddDefinitions(d, file), ct)))
        EXCEPT !.files = @ + 1]

-----------------------------------------------------------------------------
(* PrmDbRecord *)

ParameterOf(dict, id) ==
    DictionaryEntry(dict.loaded,
                    IF dict.loaded THEN Lookup(dict.parameters_by_id, id)
                    ELSE None)

\* Buffer.decode(istream, fsw_dict, length) by the class of istream: the
\* read of an io.BytesIO takes every negative length as "read the rest",
\* the read of a file opened 'rb' and of sys.stdin.buffer raises ValueError
\* for a length below -1
BufferDecodeFrom(io, data, pos, length) ==
    IF io = "BufferedReader" /\ length < -1
    THEN Raise("ValueError", pos, 0)
    ELSE BufferDecode(data, pos, length)

\* the value is read with the length size - 4 whatever the width of
\* FwPrmIdType is; a negative length reads the rest of the stream
PrmDbRecordDecodeFrom(io, fl, ct, dict, data, pos) ==
    Bind(read_until_sync_word(data, pos, PrmDbRecord_sync_word), LAMBDA sync :
    Bind(FundamentalDecode("U32", data, sync.pos), LAMBDA size :
    Bind(FundamentalDecode(ct.FwPrmIdType, data, size.pos), LAMBDA id :
    Bind(BufferDecodeFrom(io, data, id.pos, size.val.value - 4),
         LAMBDA value_raw :
    Bind(ParameterOf(dict, id.val.value), LAMBDA parameter :
    Bind(Outer(ValueOf(parameter.val, fl, ct, value_raw.val.data),
               value_raw.pos, parameter.warn), LAMBDA value :
    Ok([t |-> "PrmDbRecord",
        offset |-> pos,
        size |-> size.val,
        id |-> id.val,
        value_raw |-> value_raw.val,
        parameter |-> parameter.val,
        value |-> value.val],
       value.pos, value.warn)))))))

\* PrmDbRecord.decode on an io.BytesIO
PrmDbRecordDecode(fl, ct, dict, data, pos) ==
    PrmDbRecordDecodeFrom("BytesIO", fl, ct, dict, data, pos)

-----------------------------------------------------------------------------
(* Configurations, dictionaries and input streams the model draws from *)

\* the flags as --FW_USE_TIME_BASE and --FW_USE_TIME_CONTEXT may set them
TimeFlagChoices ==
    {[fprime_configurable_flags EXCEPT !.FW_USE_TIME_BASE = b,
                                       !.FW_USE_TIME_CONTEXT = c] :
        b \in BOOLEAN, c \in BOOLEAN}

\* the flags as --FW_SERIALIZE_TRUE_VALUE and --FW_SERIALIZE_FALSE_VALUE may
\* set them to one-byte values
BoolFlagChoices ==
    {[fprime_configurable_flags EXCEPT !.FW_SERIALIZE_TRUE_VALUE = tb,
                                       !.FW_SERIALIZE_FALSE_VALUE = fb] :
        tb \in {<<255>>, <<1>>, <<0>>}, fb \in {<<0>>, <<255>>}}

\* a configuration with one-byte identifiers and a one-byte packet
\* descriptor, as the --Fw*Type options may set them
NarrowTypes ==
    [fprime_configurable_types EXCEPT !.FwOpcodeType = "U8",
                                      !.FwChanIdType = "U8",
                                      !.FwEventIdType = "U8",
                                      !.FwPacketDescriptorType = "U8",
                                      !.FwBuffSizeType = "U8",
                                      !.FwPrmIdType = "U8"]

ShortTimeFlags ==
    [fprime_configurable_flags EXCEPT !.FW_USE_TIME_BASE = FALSE,
                                      !.FW_USE_TIME_CONTEXT = FALSE]

\* the configurations the command line may set up: the defaults, the narrow
\* types with the short Time, and the defaults with a U16 packet descriptor
Configurations ==
    {[flags |-> fprime_configurable_flags,
      ctypes |-> fprime_configurable_types],
     [flags |-> ShortTimeFlags, ctypes |-> NarrowTypes],
     [flags |-> fprime_configurable_flags,
      ctypes |-> [fprime_configurable_types
                      EXCEPT !.FwPacketDescriptorType = "U16",
                             !.FwPrmIdType = "U16"]]}

Argument(type, length) == [type |-> type, length |-> length]

\* a dictionary after FswDictionary.parse: the by-ID indexes, each item
\* reduced to the types its decoding uses
DictA ==
    [loaded |-> TRUE,
     commands_by_opcode |->
         (1 :> [args |-> <<Argument(FundamentalT("U8"), <<>>)>>]
          @@ 2 :> [args |-> <<Argument(NoType, <<>>),
                              Argument(FundamentalT("U16"), <<>>)>>]),
     events_by_id |->
         (16 :> [args |-> <<Argument(StringT, <<2>>),
                            Argument(BoolT, <<>>)>>]),
     channels_by_id |->
         (16 :> [type |-> FundamentalT("U16")]
          @@ 17 :> [type |-> NoType]),
     parameters_by_id |-> <<>>,
     types |-> initial_types]

Dictionaries == {NoDict, DictA}

\* a dictionary file: the enum E with the items 0 and 1; the serializable
\* S with two members, the second an E; the array Arr of two elements; the
\* command c.P1_PRM_SET with the arguments given, c.P2_PRM_SET with two
\* arguments and no c.P3_PRM_SET; channels of the types E, S and Arr; the
\* parameters c.P1, c.P2 and c.P3
DictionaryFile(member_type_str, element_type_str, set_command_args) ==
    [enums |-> <<Enum("E", {0, 1})>>,
     serializables |->
         <<Serializable("S", <<Member(member_type_str), Member("E")>>)>>,
     arrays |-> <<Array("Arr", element_type_str, 2)>>,
     commands |->
         <<Command("c", "P1_PRM_SET", 1, set_command_args),
           Command("c", "P2_PRM_SET", 2,
                   <<ArgumentDef("U8", <<>>), ArgumentDef("U8", <<>>)>>)>>,
     events |-> <<>>,
     channels |->
         <<Channel("c", "ch18", 18, "E"),
           Channel("c", "ch19", 19, "S"),
           Channel("c", "ch21", 21, "Arr")>>,
     parameters |->
         <<Parameter("c", "P1", 1),
           Parameter("c", "P2", 2),
           Parameter("c", "P3", 3)>>]

\* the argument lists of c.P1_PRM_SET: none, one of a type of the
\* dictionary, one of a type the namespace lacks, two
SetCommandArgs ==
    {<<>>,
     <<ArgumentDef("E", <<>>)>>,
     <<ArgumentDef("Nope", <<>>)>>,
     <<ArgumentDef("U8", <<>>), ArgumentDef("E", <<>>)>>}

\* the files a first --dictionary option may name
DictionaryFiles ==
    {DictionaryFile(m, e, a) :
        m \in {"U8", "E", "Arr", "Nope"},
        e \in {"U8", "E", "Nope"},
        a \in SetCommandArgs}

\* a file that holds nothing but a command, or nothing but an array
CommandFile(component, mnemonic, opcode, args) ==
    [enums |-> <<>>, serializables |-> <<>>, arrays |-> <<>>,
     commands |-> <<Command(component, mnemonic, opcode, args)>>,
     events |-> <<>>, channels |-> <<>>, parameters |-> <<>>]
ArrayFile(name, element_type_str, size) ==
    [enums |-> <<>>, serializables |-> <<>>,
     arrays |-> <<Array(name, element_type_str, size)>>,
     commands |-> <<>>, events |-> <<>>, channels |-> <<>>,
     parameters |-> <<>>]

\* a file in which the command c.X and the channel c.ch come twice, each
\* time with another ID
RepeatedKeysFile ==
    [enums |-> <<>>, serializables |-> <<>>, arrays |-> <<>>,
     commands |->
         <<Command("c", "X", 6, <<ArgumentDef("U8", <<>>)>>),
           Command("c", "X", 7, <<ArgumentDef("U8", <<>>)>>)>>,
     events |-> <<>>,
     channels |->
         <<Channel("c", "ch", 16, "U8"), Channel("c", "ch", 17, "U8")>>,
     parameters |-> <<>>]

\* the files a further --dictionary option may name: one of the files
\* above again, a file that redefines c.P1_PRM_SET with two arguments, one
\* that gives it the opcode 5, one that defines c.P3_PRM_SET, one that
\* redefines the array, and the file of the repeated keys
MoreDictionaryFiles ==
    {DictionaryFile("Arr", "U8", <<ArgumentDef("E", <<>>)>>),
     CommandFile("c", "P1_PRM_SET", 5, <<ArgumentDef("E", <<>>)>>),
     RepeatedKeysFile,
     CommandFile("c", "P1_PRM_SET", 1,
                 <<ArgumentDef("U8", <<>>), ArgumentDef("U8", <<>>)>>),
     CommandFile("c", "P3_PRM_SET", 3, <<ArgumentDef("U16", <<>>)>>),
     ArrayFile("Arr", "E", 2)}

\* the file the main program is given, beside the dictionaries above
MainDictionaryFile == DictionaryFile("Arr", "U8", <<ArgumentDef("E", <<>>)>>)

\* the lines a dictionary's parse calls wrote to sys.stderr
ParseWarnings(d) == IF "warn" \in DOMAIN d THEN d.warn ELSE 0

\* the packet descriptor as four bytes
Tag(n) == <<0, 0, 0, n>>

Time11 == <<0, 1, 2, 0, 0, 0, 3, 0, 0, 0, 4>>

\* packets as byte strings: for each packet type one that decodes fully
\* under the default configuration, and some that do not.  Their bytes are
\* below 128: the input streams are read at any offset and with any width,
\* and a four-byte integer read from such bytes is below 2^31, inside the
\* range of the integers of the model.
PacketBodies ==
    {Tag(4) \o <<42>>,                                  \* PACKETIZED_TLM
     Tag(7) \o <<59>>,                                  \* no member
     Tag(5) \o <<1>>,                                   \* IDLE
     Tag(0) \o <<0, 0, 0, 1>> \o <<5>>,                 \* COMMAND 1
     Tag(0) \o <<0, 0, 0, 9>>,                          \* COMMAND 9
     Tag(1) \o <<0, 0, 0, 16>> \o Time11 \o <<1, 2>>,   \* TELEM 16
     Tag(1) \o <<0, 0, 0, 18>> \o Time11 \o <<0, 0, 0, 9>>,  \* TELEM 18
     Tag(2) \o <<0, 0, 0, 16>> \o Time11 \o <<0, 2, 104, 105, 1>>,
     Tag(3) \o <<3>> \o <<0, 0, 0, 1>>,                 \* FILE CANCEL
     Tag(3) \o <<7>> \o <<0, 0, 0, 1>>}                 \* FILE, no sub-type

\* further packets, decoded on their own only
MorePacketBodies ==
    {Tag(5),                                            \* IDLE
     Tag(255) \o <<1>>,                                 \* UNKNOWN
     Tag(0) \o <<2>> \o <<7, 0, 9>>,
     Tag(1) \o <<16>> \o <<0, 0, 0, 3, 0, 0, 0, 4>> \o <<1, 2>>,
     Tag(1) \o <<0, 0, 0, 17>> \o Time11,
     Tag(1) \o <<0, 0, 0, 16>> \o Time11,
     Tag(1) \o <<0, 0, 0, 18>> \o Time11 \o <<0, 0, 0, 1>>,
     Tag(1) \o <<0, 0, 0, 19>> \o Time11 \o <<5, 0, 0, 0, 1>>,
     Tag(1) \o <<0, 0, 0, 21>> \o Time11 \o <<5, 6>>,
     Tag(2) \o <<0, 0, 0, 9>> \o Time11,
     Tag(3) \o <<2>> \o <<0, 0, 0, 1>> \o <<0, 0, 0, 9>>,          \* END
     Tag(3) \o <<1>> \o <<0, 0, 0, 1>> \o <<0, 0, 0, 0>>
            \o <<0, 2, 170, 187>>,                                 \* DATA
     Tag(3) \o <<0>> \o <<0, 0, 0, 1>> \o <<0, 0, 0, 42>>
            \o <<3, 102, 111, 111>> \o <<3, 98, 97, 114>>,         \* START
     Tag(3) \o <<0>> \o <<0, 0, 0, 42>> \o <<0, 0, 0, 1>>
            \o <<3, 102, 111, 111>> \o <<3, 98, 97, 114>>,         \* START
     Tag(3) \o <<255>> \o <<0, 0, 0, 1>>,                          \* NONE
     <<0, 0>>}

\* a record: the size field, as wide as the record type has it, holding
\* the length of the packet plus delta, and then the packet
Chunk(name, body, delta) ==
    StructPack(packet_size_type(name), Len(body) + delta) \o body

\* the records input streams are built from: every packet with its exact
\* size, one record whose size is a byte too large, one whose size is a
\* byte too small, and a record of size zero
Chunks(name) ==
    {Chunk(name, body, 0) : body \in PacketBodies}
        \cup {Chunk(name, Tag(4) \o <<42>>, 1),
              Chunk(name, Tag(0) \o <<0, 0, 0, 1>> \o <<5>>, -1),
              Chunk(name, <<>>, 0)}

\* what may follow the last record: nothing, or the start of a record cut
\* off inside its size field or inside its packet descriptor
Tails(name) ==
    {<<>>, <<0>>, StructPack(packet_size_type(name), 4) \o <<0, 0>>}

RECURSIVE Flatten(_)
Flatten(seqs) ==
    IF seqs = <<>> THEN <<>> ELSE Head(seqs) \o Flatten(Tail(seqs))

\* the input streams: up to MaxChunks records of one record type, and a tail
InputStreams ==
    UNION {{Flatten(cs) \o tail :
               cs \in SeqsUpTo(Chunks(name), MaxChunks),
               tail \in Tails(name)} :
           name \in RecordNames}

-----------------------------------------------------------------------------
(* Printers.  A line written to sys.stdout is the sequence of its cells,   *)
(* the texts the tab characters separate; a cell is the text itself or the *)
(* value an f-string formats.                                              *)

Text(s) == [cell |-> "text", text |-> s]
Formatted(how, v) == [cell |-> how, value |-> v]

\* the column names print_header writes
Columns ==
    <<"record_index", "record_offset", "packet_size", "packet_type_name",
      "packet_type_value", "packet_time", "telem_id", "telem_id_hex",
      "telem_topology_name", "telem_component", "telem_name", "telem_time",
      "telem_value_raw_size", "telem_value_raw", "telem_value", "event_id",
      "event_id_hex", "event_topology_name", "event_component", "event_name",
      "event_severity", "event_time", "event_arguments_raw_size",
      "event_arguments_raw", "payload">>

\* printer.print_header(): JsonPrinter writes nothing, TsvPrinter the
\* column names, VnlogPrinter the column names behind a '#'
print_header(format) ==
    CASE format = "json" -> <<>>
      [] format = "tsv" -> <<[i \in DOMAIN Columns |-> Text(Columns[i])]>>
      [] format = "vnlog" ->
             <<[i \in DOMAIN Columns |->
                   Text(IF i = 1 THEN "#" \o Columns[i] ELSE Columns[i])]>>

\* the text of a cell without a value: '' in TsvPrinter, '-' in VnlogPrinter
Blank(format) == Text(IF format = "tsv" THEN "" ELSE "-")

\* the literals '\t\t...' and '\t-\t-...' of print_record
Blanks(format, n) == [i \in 1..n |-> Blank(format)]

\* data.hex() if len(data) else the blank
HexOrBlank(format, data) ==
    IF Len(data) > 0 THEN Formatted("hex", data) ELSE Blank(format)

\* self._d and self._d.<index>.get(payload.id.value, None)
PrinterEntry(dict, index, id) ==
    IF dict.loaded THEN Lookup(dict[index], id) ELSE None

\* getattr(entry, name, blank)
Attribute(format, entry, id, name) ==
    IF entry = None THEN Blank(format) ELSE Formatted(name, id)

\* the first write of print_record
RecordCells(index, record) ==
    <<Formatted("d", index),
      Formatted("d", record.offset),
      Formatted("d", record.packet_size.value),
      Formatted("name", record.packet.type),
      Formatted("d", record.packet.type.value)>>

\* the write of the branch for Packet.Type.TELEM
TelemCells(format, dict, payload) ==
    <<Formatted("time", payload.time),
      Formatted("d", payload.id.value),
      Formatted("#x", payload.id.value),
      Attribute(format, PrinterEntry(dict, "channels_by_id",
                                     payload.id.value),
                payload.id.value, "topology_name"),
      Attribute(format, PrinterEntry(dict, "channels_by_id",
                                     payload.id.value),
                payload.id.value, "component"),
      Attribute(format, PrinterEntry(dict, "channels_by_id",
                                     payload.id.value),
                payload.id.value, "name"),
      Formatted("time", payload.time),
      Formatted("d", Len(payload.value_raw.data)),
      HexOrBlank(format, payload.value_raw.data),
      Formatted("str", payload.value)>>
        \o Blanks(format, 10)

\* the write of the branch for Packet.Type.LOG
EventCells(format, dict, payload) ==
    <<Formatted("time", payload.time)>>
        \o Blanks(format, 9)
        \o <<Formatted("d", payload.id.value),
             Formatted("#x", payload.id.value),
             Attribute(format, PrinterEntry(dict, "events_by_id",
                                            payload.id.value),
                       payload.id.value, "topology_name"),
             Attribute(format, PrinterEntry(dict, "events_by_id",
                                            payload.id.value),
                       payload.id.value, "component"),
             Attribute(format, PrinterEntry(dict, "events_by_id",
                                            payload.id.value),
                       payload.id.value, "name"),
             Attribute(format, PrinterEntry(dict, "events_by_id",
                                            payload.id.value),
                       payload.id.value, "severity_str"),
             Formatted("time", payload.time),
             Formatted("d", Len(payload.arguments_raw.data)),
             HexOrBlank(format, payload.arguments_raw.data)>>
        \o Blanks(format, 1)

\* the write of the else branch: the literal of 18 tabs of TsvPrinter or
\* of 16 '\t-' of VnlogPrinter, and payload.data.hex()
OtherCells(format, payload) ==
    Blanks(format, IF format = "tsv" THEN 18 ELSE 16)
        \o <<Formatted("hex", payload.data)>>

\* the outcome of a print_record call: the cells written, and the exception
\* that ended the call if one did
Printed(cells) == [st |-> "ok", cells |-> cells]
PrintRaise(e, cells) == [st |-> e, cells |-> cells]

\* printer.print_record(record).  JsonPrinter writes item.as_json(), here
\* the one cell that holds the item.  In the else branch of the two other
\* printers payload.data exists for a Buffer only: the payload classes of
\* COMMAND and FILE have no attribute data.
print_record(format, dict, index, record) ==
    IF format = "json" THEN Printed(<<Formatted("as_json", record)>>)
    ELSE IF record.packet.type.t = "Packet.Type"
            /\ record.packet.type.value = 1
    THEN Printed(RecordCells(index, record)
                     \o TelemCells(format, dict, record.packet.payload))
    ELSE IF record.packet.type.t = "Packet.Type"
            /\ record.packet.type.value = 2
    THEN Printed(RecordCells(index, record)
                     \o EventCells(format, dict, record.packet.payload))
    ELSE IF record.packet.payload.t = "Buffer"
    THEN Printed(RecordCells(index, record)
                     \o OtherCells(format, record.packet.payload))
    ELSE PrintRaise("AttributeError", RecordCells(index, record))

-----------------------------------------------------------------------------
(* The record types of the command line *)

\* the names register_fp_types_custom has put in fp_types_custom when the
\* module is loaded.  The decorator above FprimeGdsStream is written
\* without the call parentheses: the class is passed as the name, nothing
\* is registered, and the module's FprimeGdsStream is the inner function.
fp_types_custom ==
    {"Buffer", "AsciiBuffer", "ComLoggerRecord", "FprimeGdsRecord",
     "PrmDbRecord", "Packet", "Packet.Type", "CommandPacket", "TelemPacket",
     "EventPacket", "FilePacketPathName", "FilePacket", "FilePacket.Type",
     "FilePacketStartPayload", "FilePacketDataPayload",
     "FilePacketEndPayload", "FilePacketCancelPayload"}

\* record_type after the two lookups: the name when fp_types_custom or the
\* namespace of a loaded dictionary has it, else None
LookUpRecordType(dict, name) ==
    IF name \in fp_types_custom THEN name
    ELSE IF dict.loaded /\ name \in DOMAIN dict.types THEN name
    ELSE "None"

\* record_type.decode(args.istream, fsw_dict), args.istream a file
RecordTypeDecode(name, fl, ct, dict, data, pos) ==
    CASE name = "PrmDbRecord" ->
             PrmDbRecordDecodeFrom("BufferedReader", fl, ct, dict, data, pos)
      [] name = "AsciiBuffer" -> AsciiBufferDecode(data, pos, -1)
      [] name = "FilePacketCancelPayload" ->
             FilePacketCancelPayloadDecode(data, pos)
      [] name = "Buffer" -> BufferDecode(data, pos, -1)
      [] name \in RecordNames -> RecordDecode(name, fl, ct, dict, data, pos)
      [] name = "Packet" -> PacketDecode(fl, ct, dict, data, pos)
      [] name = "Packet.Type" -> PacketTypeDecode(data, pos)
      [] name = "CommandPacket" ->
             CommandPacketDecode(fl, ct, dict, data, pos)
      [] name = "TelemPacket" -> TelemPacketDecode(fl, ct, dict, data, pos)
      [] name = "EventPacket" -> EventPacketDecode(fl, ct, dict, data, pos)
      [] name = "FilePacketPathName" -> FilePacketPathNameDecode(data, pos)
      [] name = "FilePacket" -> FilePacketDecode(data, pos)
      [] name = "FilePacket.Type" ->
             EnumDecode("FilePacket.Type", "U8", FilePacketTypeMembers,
                        data, pos)
      [] name = "FilePacketStartPayload" ->
             FilePacketStartPayloadDecode(data, pos)
      [] name = "FilePacketDataPayload" ->
             FilePacketDataPayloadDecode(data, pos)
      [] name = "FilePacketEndPayload" ->
             FilePacketEndPayloadDecode(data, pos)
      [] OTHER -> TypeDecode(dict.types[name], fl, ct, data, pos, <<>>)

\* the values of --record-type the model passes: the two record classes,
\* other names of fp_types_custom, FprimeGdsStream, a fundamental type,
\* which only the namespace of a dictionary has, and a name nobody has
RecordTypeChoices ==
    RecordNames
        \cup {"PrmDbRecord", "Packet", "Buffer", "FilePacketCancelPayload",
              "FprimeGdsStream", "U8", "Nope"}

\* a file of a parameter database: the sync byte, the size, the ID and
\* the value of each record
PrmDbBytes(size, id, value) ==
    PrmDbRecord_sync_word \o <<0, 0, 0, size>> \o id \o value

\* files of two parameter records: the first whole, or with a size field
\* below the width of the ID
PrmDbStreams ==
    {PrmDbBytes(size, <<0, 0, 0, 1>>, <<0, 0, 0, 1>>)
         \o PrmDbBytes(5, <<0, 0, 0, 2>>, <<7>>) : size \in {8, 3, 2, 0}}
        \cup {PrmDbBytes(6, <<0, 1>>, <<0, 0, 0, 1>>)
                  \o PrmDbBytes(3, <<0, 2>>, <<7>>)}

\* The integers of the model are below 2^31: a stream that holds the sync
\* byte A5 is given only to the record types that read no integer from it
\* at the start of a field of four bytes
Readable(name, data) ==
    (\E i \in DOMAIN data : data[i] >= 128)
        => name \notin RecordNames \cup {"Packet"}

-----------------------------------------------------------------------------
(* Spec: the main program.  The module has been imported (the globals hold *)
(* their defaults), the command line is applied, and then the record loop  *)
(* decodes record after record from the input stream until an exception    *)
(* ends it.                                                                *)

\* parser.parse_args() has returned: record_type and output_format hold
\* args.record_type and args.output_format, istream is args.istream; the
\* globals still hold their defaults
Init ==
    /\ flags = fprime_configurable_flags
    /\ ctypes = fprime_configurable_types
    /\ fsw_dict = NoDict
    /\ record_type \in RecordTypeChoices
    /\ \E data \in InputStreams \cup PrmDbStreams :
           /\ Readable(record_type, data)
           /\ istream = [data |-> data, pos |-> 0]
    /\ pc = "args"
    /\ result = NoResult
    /\ record_index = 0
    /\ stderr = 0
    /\ scan = ScanIdle
    /\ ostream = NoOutput
    /\ redecoded = NoResult
    /\ output_format \in {"json", "tsv", "vnlog"}

\* what follows parser.parse_args() up to the record loop: the flags
\* and type aliases are rebound, the dictionary is loaded, the record type
\* is looked up (sys.exit(1) when no registry has the name), the printer
\* is chosen, the JSON printer for every record type but the two record
\* classes, and the header is printed
ParseArgs ==
    /\ pc = "args"
    /\ \E cfg \in Configurations :
           /\ flags' = cfg.flags
           /\ ctypes' = cfg.ctypes
           /\ fsw_dict' \in Dictionaries
                  \cup {parse(FswDictionary, MainDictionaryFile, cfg.ctypes)}
    /\ record_type' = LookUpRecordType(fsw_dict', record_type)
    /\ output_format' = IF record_type' \in RecordNames THEN output_format
                        ELSE "json"
    /\ stderr' = stderr + ParseWarnings(fsw_dict')
                     + (IF record_type' \in RecordNames THEN 0 ELSE 1)
    /\ pc' = IF record_type' = "None" THEN "exit1" ELSE "loop"
    /\ ostream' = IF record_type' = "None" THEN ostream
                  ELSE [st |-> "ok", out |-> print_header(output_format')]
    /\ UNCHANGED <<istream, result, record_index, scan, redecoded>>

\* one iteration of the record loop: decode a record and print it; a
\* BrokenPipeError ends the loop and the program ends normally, any other
\* exception of the decode or of the printer is not caught and ends the
\* program with a traceback
DecodeRecord ==
    /\ pc = "loop"
    /\ record_index < MaxRecords
    /\ \E r \in {RecordTypeDecode(record_type, flags, ctypes, fsw_dict,
                                 istream.data, istream.pos)} :
          /\ result' = r
          /\ istream' = [istream EXCEPT !.pos = r.pos]
          /\ stderr' = stderr + r.warn
          /\ \E line \in {IF r.st = "ok"
                          THEN print_record(output_format, fsw_dict,
                                            record_index, r.val)
                          ELSE PrintRaise(r.st, <<>>)} :
                /\ ostream' = IF r.st = "ok"
                              THEN [st |-> line.st,
                                    out |-> Append(ostream.out, line.cells)]
                              ELSE ostream
                /\ record_index' = IF line.st = "ok" THEN record_index + 1
                                   ELSE record_index
                /\ pc' = IF line.st = "ok" THEN "loop"
                         ELSE IF line.st = "BrokenPipeError" THEN "done"
                         ELSE "crashed"
    /\ UNCHANGED <<flags, ctypes, fsw_dict, record_type, scan, redecoded,
                   output_format>>

Next == ParseArgs \/ DecodeRecord

Spec == Init /\ [][Next]_vars

\* the record loop decodes records of one of the two record classes
InRecordLoop == pc = "loop" /\ record_type \in RecordNames

\* result holds a record of one of the two record classes
RecordDecoded == record_type \in RecordNames /\ result.st = "ok"

\* the width of the size field of the record that result holds
SizeWidth == StructSize(result.val.packet_size.t)

\* the position of the input stream after packet_size bytes of the record
\* that result holds
RecordEnd == result.val.offset + SizeWidth + result.val.packet_size.value

\* C5: Record.decode reads exactly packet_size bytes into the packet
\* sub-stream: no record is returned whose size field promises more bytes
\* than the input stream still held after the size field (such a decode
\* fails with BrokenPipeError instead).
C5_NoRecordFromTruncatedBuffer ==
    RecordDecoded => RecordEnd <= Len(istream.data)

\* the bytes a decoded payload holds from "read the rest"
ReadTheRest(payload) ==
    CASE payload.t = "CommandPacket" -> payload.arguments_raw.data
      [] payload.t = "TelemPacket" -> payload.value_raw.data
      [] payload.t = "EventPacket" -> payload.arguments_raw.data
      [] payload.t = "Buffer" -> payload.data
      [] OTHER -> <<>>

\* C6: one successful Record.decode advances the input stream by exactly
\* width(packet_size) + packet_size bytes, and the bytes a payload reads as
\* "the rest" are the last bytes inside those packet_size bytes, none of a
\* later record.
C6_ReadTheRestIsConfined ==
    RecordDecoded =>
        /\ istream.pos = RecordEnd
        /\ Len(ReadTheRest(result.val.packet.payload))
               <= result.val.packet_size.value
        /\ ReadTheRest(result.val.packet.payload)
               = SubSeq(istream.data,
                        RecordEnd
                            - Len(ReadTheRest(result.val.packet.payload)) + 1,
                        RecordEnd)

\* the payload class of each tag
PayloadClassOfTag(tag) ==
    CASE tag = 0 -> "CommandPacket"
      [] tag = 1 -> "TelemPacket"
      [] tag = 2 -> "EventPacket"
      [] tag = 3 -> "FilePacket"
      [] OTHER -> "Buffer"

\* the bytes of the packet of the record at the position of the input
\* stream, as the size field of the record type in use delimits them
NextPacketBuffer ==
    Read(istream.data,
         istream.pos + StructSize(packet_size_type(record_type)),
         BytesToNat(Read(istream.data, istream.pos,
                         StructSize(packet_size_type(record_type)))))

\* the tag at the head of those bytes
NextTag == BytesToNat(SubSeq(NextPacketBuffer, 1, 4))

\* C9: Packet.decode dispatches on the decoded tag: 0, 1, 2, 3 select the
\* command, telemetry, event and file packet decoders, every other tag an
\* opaque Buffer that holds the rest of the confined stream; a tag that is
\* no member of Packet.Type does not fail the decode: a warning is written,
\* type.value keeps the tag and the payload is the opaque rest.
C9_PacketDispatchOnTag ==
    [][(InRecordLoop /\ Len(NextPacketBuffer) >= 4) =>
           /\ result'.st = "ok" =>
                  /\ result'.val.packet.type.value = NextTag
                  /\ result'.val.packet.payload.t = PayloadClassOfTag(NextTag)
           /\ NextTag \notin {0, 1, 2, 3} =>
                  /\ result'.st = "ok"
                  /\ result'.val.packet.payload
                         = Buffer(SubSeq(NextPacketBuffer, 5,
                                         Len(NextPacketBuffer)))
           /\ NextTag \notin PacketTypeMembers =>
                  /\ result'.st = "ok"
                  /\ result'.val.packet.type.value = NextTag
                  /\ stderr' = stderr + 1]_vars

C9_Witness ==
    /\ InRecordLoop
    /\ result.st = "ok"
    /\ result.val.packet.type = [t |-> "SimpleNamespace", value |-> 7]
    /\ result.val.packet.payload = Buffer(<<59>>)
    /\ stderr = 1

\* C10: the tag is decoded with the type the alias FwPacketDescriptorType
\* names at the time of the decode: the tag of a decoded record is the
\* number that the first bytes of the packet hold in the width of the type
\* the command line bound to the alias.
C10_TagWidthFollowsAlias ==
    RecordDecoded =>
        result.val.packet.type.value
            = BytesToNat(SubSeq(istream.data,
                                result.val.offset + SizeWidth + 1,
                                result.val.offset + SizeWidth
                                    + StructSize(ctypes.FwPacketDescriptorType)))

\* the width of the size field of the record type in use
NextSizeWidth == StructSize(packet_size_type(record_type))

\* the size field of the record at the position of the input stream
NextPacketSize == BytesToNat(Read(istream.data, istream.pos, NextSizeWidth))

\* the record at the position of the input stream is whole: its size field
\* and the bytes the size field announces are in the input stream
NextRecordIsWhole ==
    istream.pos + NextSizeWidth + NextPacketSize <= Len(istream.data)

\* C11: a FILE packet whose sub-type byte is none of START (0), DATA (1),
\* END (2), CANCEL (3) fails that record only: the main loop drops the
\* record with a diagnostic and goes on with the record that follows it in
\* the input stream.
C11_BadFileSubTypeDropsOnlyThatRecord ==
    [][(/\ InRecordLoop
        /\ NextRecordIsWhole
        /\ Len(NextPacketBuffer) >= 5
        /\ NextTag = 3
        /\ NextPacketBuffer[5] \notin {0, 1, 2, 3}) =>
           /\ pc' = "loop"
           /\ istream'.pos = istream.pos + NextSizeWidth + NextPacketSize
           /\ stderr' > stderr]_vars

\* C14: a record with packet_size = 0 does not end the record loop while
\* the input stream holds more bytes: the stream is left right after the
\* size field and the loop goes on with the records that follow.
C14_ZeroSizeRecordDoesNotEndTheLoop ==
    [][(/\ InRecordLoop
        /\ istream.pos + NextSizeWidth <= Len(istream.data)
        /\ NextPacketSize = 0) =>
           /\ istream'.pos = istream.pos + NextSizeWidth
           /\ istream'.pos < Len(istream.data) => pc' = "loop"]_vars

\* the number of bytes of a Time under the flags and types in use
TimeSize ==
    (IF flags.FW_USE_TIME_BASE
     THEN StructSize(ctypes.FwTimeBaseStoreType) ELSE 0)
        + (IF flags.FW_USE_TIME_CONTEXT
           THEN StructSize(ctypes.FwTimeContextStoreType) ELSE 0)
        + 8

\* of the TELEM packet at the position of the input stream: the channel ID
\* and the bytes of the value
NextChannelId ==
    BytesToNat(SubSeq(NextPacketBuffer, 5,
                      4 + StructSize(ctypes.FwChanIdType)))
NextValueRaw ==
    SubSeq(NextPacketBuffer,
           4 + StructSize(ctypes.FwChanIdType) + TimeSize + 1,
           Len(NextPacketBuffer))

\* the next record is a whole TELEM packet of a channel whose type is an
\* enum of the dictionary, and its value is the integer v, which is not
\* the value of any item of the enum
NextIsUndeclaredEnumValue(v) ==
    /\ InRecordLoop
    /\ fsw_dict.loaded
    /\ NextRecordIsWhole
    /\ Len(NextPacketBuffer) >= 4 + StructSize(ctypes.FwChanIdType) + TimeSize
    /\ NextTag = 1
    /\ NextChannelId \in DOMAIN fsw_dict.channels_by_id
    /\ fsw_dict.channels_by_id[NextChannelId].type.kind = "enum"
    /\ Len(NextValueRaw)
           = StructSize(fsw_dict.channels_by_id[NextChannelId].type.underlying)
    /\ v = StructUnpack(
               fsw_dict.channels_by_id[NextChannelId].type.underlying,
               NextValueRaw)
    /\ v \notin fsw_dict.channels_by_id[NextChannelId].type.members

\* C12: a value of a dictionary enum that is not the value of any declared
\* item does not fail the decode: the record is decoded, its resolved value
\* keeps the raw integer, and the loop goes on with the following records.
C12_UndeclaredEnumValueIsKept ==
    [][\A v \in 0..255 :
           NextIsUndeclaredEnumValue(v) =>
               /\ result'.st = "ok"
               /\ result'.val.packet.payload.value.value = v
               /\ pc' = "loop"]_vars


-----------------------------------------------------------------------------
(* SpecCodec: the module used as a library.  A value of one class is       *)
(* decoded from bytes, or constructed, then encoded, and the bytes written *)
(* are decoded again.  record_type names the class.                        *)

\* the classes with a decode and an encode method that the model has
CodecNames ==
    FundamentalNames
        \cup {"bool", "Buffer", "string", "Time", "CommandPacket",
              "TelemPacket", "EventPacket", "FilePacket", "Packet"}
        \cup RecordNames

\* cls.decode(istream, fsw_dict)
CodecDecode(cls, fl, ct, dict, data, pos) ==
    CASE cls \in FundamentalNames -> FundamentalDecode(cls, data, pos)
      [] cls = "bool" -> BoolDecode(fl, data, pos)
      [] cls = "Buffer" -> BufferDecode(data, pos, -1)
      [] cls = "string" -> StringDecode(ct, data, pos, <<>>)
      [] cls = "Time" -> TimeDecode(fl, ct, data, pos)
      [] cls = "CommandPacket" -> CommandPacketDecode(fl, ct, dict, data, pos)
      [] cls = "TelemPacket" -> TelemPacketDecode(fl, ct, dict, data, pos)
      [] cls = "EventPacket" -> EventPacketDecode(fl, ct, dict, data, pos)
      [] cls = "FilePacket" -> FilePacketDecode(data, pos)
      [] cls = "Packet" -> PacketDecode(fl, ct, dict, data, pos)
      [] cls \in RecordNames -> RecordDecode(cls, fl, ct, dict, data, pos)
      [] cls = "PrmDbRecord" -> PrmDbRecordDecode(fl, ct, dict, data, pos)

\* self.encode(ostream), by the class of self
CodecEncode(fl, ct, self, out) ==
    CASE self.t \in FundamentalNames -> FundamentalEncode(self, out)
      [] self.t = "bool" -> BoolEncode(fl, self, out)
      [] self.t = "string" -> StringEncode(ct, self, out)
      [] self.t = "Time" -> TimeEncode(fl, ct, self, out)
      [] self.t = "Packet" -> PacketEncode(fl, ct, self, out)
      [] self.t \in RecordNames -> RecordEncode(fl, ct, self, out)
      [] OTHER -> PayloadEncode(fl, ct, self, out)

\* the payloads of the packets of type n, without the packet descriptor
PayloadBodies(n) ==
    {SubSeq(b, 5, Len(b)) :
        b \in {x \in PacketBodies \cup MorePacketBodies :
                  Len(x) > 4 /\ SubSeq(x, 1, 4) = Tag(n)}}

\* a record whose packet is followed by one more byte inside packet_size
RecordWithSlack(name) ==
    Chunk(name, Tag(3) \o <<3>> \o <<0, 0, 0, 1>> \o <<85>>, 0)

\* the bytes each class is decoded from
CodecInputs(cls) ==
    CASE cls \in {"U8", "U16"} ->
             {<<>>, <<1>>, <<255, 255>>, <<128, 0, 0, 1>>, <<0, 0, 0, 7, 9>>}
      [] cls = "U32" ->
             {<<>>, <<1>>, <<255, 255>>, <<127, 0, 0, 1>>, <<0, 0, 0, 7, 9>>}
      [] cls = "I32" ->
             {<<>>, <<1, 2, 3>>, <<255, 255, 255, 254>>, <<128, 0, 0, 0>>,
              <<127, 255, 255, 255>>, <<0, 0, 0, 7, 9>>}
      [] cls = "bool" -> {<<>>, <<255>>, <<126>>, <<0>>, <<1>>, <<0, 5>>}
      [] cls = "Buffer" -> {<<>>, <<1, 2, 3>>}
      [] cls = "string" ->
             {<<0, 2, 104, 105>>, <<0, 2, 104>>, <<2, 104, 105>>,
              <<0, 1, 200>>, <<0>>}
      [] cls = "Time" ->
             {Time11, SubSeq(Time11, 4, 11), SubSeq(Time11, 3, 11),
              SubSeq(Time11, 1, 9)}
      [] cls = "CommandPacket" -> PayloadBodies(0)
      [] cls = "TelemPacket" -> PayloadBodies(1)
      [] cls = "EventPacket" -> PayloadBodies(2)
      [] cls = "FilePacket" -> PayloadBodies(3)
      [] cls = "Packet" -> PacketBodies \cup MorePacketBodies
      [] cls \in RecordNames -> Chunks(cls) \cup {RecordWithSlack(cls)}

\* the flags a caller of the library may have set
CodecFlags ==
    {cfg.flags : cfg \in Configurations} \cup BoolFlagChoices
        \cup TimeFlagChoices

\* the dictionaries a caller of the library may pass: the ones above, and
\* two parsed from a file each.  The first file leaves S unbound and binds
\* Arr, the second binds S, leaves Arr unbound and gives c.P1_PRM_SET one
\* argument of a type the namespace lacks.
CodecDictionaries(ct) ==
    Dictionaries
        \cup {parse(FswDictionary, file, ct) :
                 file \in {MainDictionaryFile,
                           DictionaryFile("U8", "Nope",
                                          <<ArgumentDef("Nope", <<>>)>>)}}

InitCodec ==
    /\ flags \in CodecFlags
    /\ \E cfg \in Configurations : ctypes = cfg.ctypes
    /\ fsw_dict \in CodecDictionaries(ctypes)
    /\ record_type \in CodecNames
    /\ \E data \in CodecInputs(record_type) :
           istream = [data |-> data, pos |-> 0]
    /\ pc = "codec"
    /\ result = NoResult
    /\ record_index = 0
    /\ stderr = ParseWarnings(fsw_dict)
    /\ scan = ScanIdle
    /\ ostream = NoOutput
    /\ redecoded = NoResult
    /\ output_format = "vnlog"

\* value = cls.decode(istream, fsw_dict)
Decode ==
    /\ pc = "codec"
    /\ \E r \in {CodecDecode(record_type, flags, ctypes, fsw_dict,
                             istream.data, istream.pos)} :
          /\ result' = r
          /\ istream' = [istream EXCEPT !.pos = r.pos]
          /\ stderr' = stderr + r.warn
    /\ pc' = "decoded"
    /\ UNCHANGED <<flags, ctypes, fsw_dict, record_type, record_index, scan,
                   ostream, redecoded, output_format>>

\* value = Bool(True) or Bool(False)
Construct ==
    /\ pc = "codec"
    /\ record_type = "bool"
    /\ \E b \in BOOLEAN : result' = Ok([t |-> "bool", value |-> b], 0, 0)
    /\ pc' = "constructed"
    /\ UNCHANGED <<flags, ctypes, fsw_dict, record_type, istream,
                   record_index, stderr, scan, ostream, redecoded,
                   output_format>>

\* value.encode(ostream), on an empty ostream
Encode ==
    /\ pc \in {"decoded", "constructed"}
    /\ result.st = "ok"
    /\ ostream' = CodecEncode(flags, ctypes, result.val, <<>>)
    /\ pc' = "encoded"
    /\ UNCHANGED <<flags, ctypes, fsw_dict, record_type, istream, result,
                   record_index, stderr, scan, redecoded, output_format>>

\* cls.decode(io.BytesIO(ostream.getvalue()), fsw_dict)
Redecode ==
    /\ pc = "encoded"
    /\ ostream.st = "ok"
    /\ redecoded' = CodecDecode(record_type, flags, ctypes, fsw_dict,
                                ostream.out, 0)
    /\ pc' = "redecoded"
    /\ UNCHANGED <<flags, ctypes, fsw_dict, record_type, istream, result,
                   record_index, stderr, scan, ostream, output_format>>

NextCodec == Decode \/ Construct \/ Encode \/ Redecode

SpecCodec == InitCodec /\ [][NextCodec]_vars

\* C1: for every codec but Bool, a value that is encoded and then decoded
\* with the same codec comes back equal, field by field: the encode
\* succeeds, and the decode of the bytes written returns the value.
C1_EncodeThenDecodeYieldsEqualValue ==
    record_type # "bool" =>
        /\ pc = "encoded" => ostream.st = "ok"
        /\ pc = "redecoded" =>
               /\ redecoded.st = "ok"
               /\ redecoded.val = result.val

\* C2: Bool.decode reads exactly one byte and returns false if and only if
\* that byte is the configured FW_SERIALIZE_FALSE_VALUE; every other byte
\* decodes to true.
C2_BoolDecodeFalseIffFalseByte ==
    (pc = "decoded" /\ record_type = "bool" /\ istream.data # <<>>) =>
        /\ result.st = "ok"
        /\ istream.pos = 1
        /\ (~result.val.value)
               <=> (<<istream.data[1]>> = flags.FW_SERIALIZE_FALSE_VALUE)

C2_Witness ==
    /\ pc = "decoded"
    /\ record_type = "bool"
    /\ flags = fprime_configurable_flags
    /\ istream.data = <<126>>
    /\ result.st = "ok"
    /\ result.val.value

\* C3 as stated: for Bool, decode(encode(b)) = b for both values of b and
\* every configured pair of one-byte true and false values.
C3_BoolRoundTripForEveryPair ==
    (pc = "redecoded" /\ record_type = "bool") =>
        /\ redecoded.st = "ok"
        /\ redecoded.val.value = result.val.value

\* C3 amended: decode(encode(false)) = false for every configured pair of
\* one-byte values, and decode(encode(true)) = true for every pair whose
\* two bytes differ.
C3_BoolRoundTripForDistinctBytes ==
    (/\ pc = "redecoded"
     /\ record_type = "bool"
     /\ result.val.value =>
            flags.FW_SERIALIZE_TRUE_VALUE # flags.FW_SERIALIZE_FALSE_VALUE) =>
        /\ redecoded.st = "ok"
        /\ redecoded.val.value = result.val.value

C3_Witness ==
    /\ pc = "redecoded"
    /\ record_type = "bool"
    /\ flags.FW_SERIALIZE_TRUE_VALUE = <<1>>
    /\ flags.FW_SERIALIZE_FALSE_VALUE = <<255>>
    /\ result.val.value
    /\ ostream.out = <<1>>
    /\ redecoded.val.value

\* C4: the bytes Record.encode writes begin with a packet_size field that
\* holds the number of bytes the packet was encoded to, so the output is
\* width(packet_size) + |encode(P)| bytes.
C4_PacketSizeIsEncodedLength ==
    (pc = "encoded" /\ record_type \in RecordNames /\ ostream.st = "ok") =>
        BytesToNat(SubSeq(ostream.out, 1,
                          StructSize(packet_size_type(record_type))))
            = Len(ostream.out) - StructSize(packet_size_type(record_type))

\* of the COMMAND, TELEM or LOG payload that was decoded: the width of its
\* ID, the ID, the length of the fields in front of the raw bytes, the
\* by-ID index of the dictionary it is looked up in, and the bytes after
\* the fields
PayloadIdWidth ==
    StructSize(CASE record_type = "CommandPacket" -> ctypes.FwOpcodeType
                 [] record_type = "TelemPacket" -> ctypes.FwChanIdType
                 [] OTHER -> ctypes.FwEventIdType)
PayloadId == BytesToNat(SubSeq(istream.data, 1, PayloadIdWidth))
PayloadHeader ==
    PayloadIdWidth + (IF record_type = "CommandPacket" THEN 0 ELSE TimeSize)
PayloadIndex ==
    CASE record_type = "CommandPacket" -> fsw_dict.commands_by_opcode
      [] record_type = "TelemPacket" -> fsw_dict.channels_by_id
      [] OTHER -> fsw_dict.events_by_id
PayloadRest == SubSeq(istream.data, PayloadHeader + 1, Len(istream.data))

\* the resolved value of a decoded payload
Resolved(payload) ==
    IF payload.t = "TelemPacket" THEN payload.value ELSE payload.arguments

\* a COMMAND, TELEM or LOG payload whose ID and time are whole was decoded
\* with a dictionary
DecodedWithDictionary ==
    /\ pc = "decoded"
    /\ record_type \in {"CommandPacket", "TelemPacket", "EventPacket"}
    /\ fsw_dict.loaded
    /\ Len(istream.data) >= PayloadHeader

\* C13: with a dictionary present, an ID the dictionary lacks leaves the
\* decode successful, the raw bytes whole, the resolved value None, and
\* writes one warning; a channel whose type is unbound does the same
\* without a warning; an unbound argument of a command or an event is
\* None in the argument list and consumes no byte, so that a list of
\* unbound arguments never fails the decode.
C13_MissingOrUnboundLeavesRawBytes ==
    DecodedWithDictionary =>
        /\ PayloadId \notin DOMAIN PayloadIndex =>
               /\ result.st = "ok"
               /\ ReadTheRest(result.val) = PayloadRest
               /\ Resolved(result.val) = None
               /\ stderr = ParseWarnings(fsw_dict) + 1
        /\ (/\ record_type = "TelemPacket"
            /\ PayloadId \in DOMAIN PayloadIndex
            /\ PayloadIndex[PayloadId].type = NoType) =>
               /\ result.st = "ok"
               /\ ReadTheRest(result.val) = PayloadRest
               /\ Resolved(result.val) = None
               /\ stderr = ParseWarnings(fsw_dict)
        /\ (/\ record_type # "TelemPacket"
            /\ PayloadId \in DOMAIN PayloadIndex) =>
               /\ (\A i \in DOMAIN PayloadIndex[PayloadId].args :
                       PayloadIndex[PayloadId].args[i].type = NoType)
                      => result.st = "ok"
               /\ result.st = "ok" =>
                      /\ ReadTheRest(result.val) = PayloadRest
                      /\ stderr = ParseWarnings(fsw_dict)
                      /\ \A i \in DOMAIN PayloadIndex[PayloadId].args :
                             PayloadIndex[PayloadId].args[i].type = NoType
                                 => Resolved(result.val).elements[i] = None

\* a command with an unbound first argument and a U16 second argument was
\* decoded from 02 07 00 09: the arguments are None and the U16 0x0700
C13_Witness ==
    /\ DecodedWithDictionary
    /\ record_type = "CommandPacket"
    /\ istream.data = <<2, 7, 0, 9>>
    /\ result.st = "ok"
    /\ result.val.arguments_raw = Buffer(<<7, 0, 9>>)
    /\ result.val.arguments.elements = <<None, Fundamental("U16", 1792)>>

\* C15: a leaf read that gets fewer bytes than it asked for raises
\* BrokenPipeError, with no byte left as with too few: a fundamental type
\* decoded from fewer bytes than its width, and a String whose stream ends
\* before the bytes its length field announces.
C15_ShortReadRaisesEndOfStream ==
    pc = "decoded" =>
        /\ (/\ record_type \in FundamentalNames
            /\ Len(istream.data) < StructSize(record_type))
               => result.st = "BrokenPipeError"
        /\ (/\ record_type = "string"
            /\ Len(istream.data) >= StructSize(ctypes.FwBuffSizeType)
            /\ Len(istream.data)
                   < StructSize(ctypes.FwBuffSizeType)
                         + BytesToNat(SubSeq(istream.data, 1,
                                             StructSize(ctypes.FwBuffSizeType))))
               => result.st = "BrokenPipeError"

\* C16: a String that String.decode returns has a length field equal to
\* the number of bytes of its payload, and the decode has consumed the
\* width of FwBuffSizeType plus that many bytes.
C16_StringLengthIsPayloadLength ==
    (pc = "decoded" /\ record_type = "string" /\ result.st = "ok") =>
        /\ result.val.length.value = Len(result.val.string)
        /\ istream.pos
               = StructSize(ctypes.FwBuffSizeType) + result.val.length.value

\* the bytes of the base, the context, the seconds and the microseconds of
\* the Time at the head of the input stream, under the flags in use
BaseWidth ==
    IF flags.FW_USE_TIME_BASE
    THEN StructSize(ctypes.FwTimeBaseStoreType) ELSE 0
ContextWidth ==
    IF flags.FW_USE_TIME_CONTEXT
    THEN StructSize(ctypes.FwTimeContextStoreType) ELSE 0
TimeField(offset, width) ==
    BytesToNat(SubSeq(istream.data, offset + 1, offset + width))

\* C17: Time.decode reads the base only when FW_USE_TIME_BASE is set, then
\* the context only when FW_USE_TIME_CONTEXT is set, then the U32 seconds
\* and the U32 microseconds, each with the type its alias names; it
\* consumes the width of the base plus the width of the context plus 8
\* bytes: 8 with both flags off, 11 with the defaults.
C17_TimeDecodeReadsFlaggedFieldsInOrder ==
    (pc = "decoded" /\ record_type = "Time") =>
        /\ Len(istream.data) >= BaseWidth + ContextWidth + 8
               => result.st = "ok"
        /\ result.st = "ok" =>
               /\ istream.pos = BaseWidth + ContextWidth + 8
               /\ (~flags.FW_USE_TIME_BASE /\ ~flags.FW_USE_TIME_CONTEXT)
                      => istream.pos = 8
               /\ (flags = fprime_configurable_flags
                       /\ ctypes = fprime_configurable_types)
                      => istream.pos = 11
               /\ result.val.base
                      = IF flags.FW_USE_TIME_BASE
                        THEN Fundamental(ctypes.FwTimeBaseStoreType,
                                         TimeField(0, BaseWidth))
                        ELSE None
               /\ result.val.context
                      = IF flags.FW_USE_TIME_CONTEXT
                        THEN Fundamental(ctypes.FwTimeContextStoreType,
                                         TimeField(BaseWidth, ContextWidth))
                        ELSE None
               /\ result.val.seconds
                      = Fundamental("U32",
                                    TimeField(BaseWidth + ContextWidth, 4))
               /\ result.val.microseconds
                      = Fundamental("U32",
                                    TimeField(BaseWidth + ContextWidth + 4, 4))

\* with the base switched off and the context on, 02 00 00 00 03 00 00 00
\* 04 was decoded to context 2, seconds 3, microseconds 4 in 9 bytes
C17_Witness ==
    /\ pc = "decoded"
    /\ record_type = "Time"
    /\ ~flags.FW_USE_TIME_BASE
    /\ flags.FW_USE_TIME_CONTEXT
    /\ ctypes = fprime_configurable_types
    /\ istream.data = SubSeq(Time11, 3, 11)
    /\ result.st = "ok"
    /\ istream.pos = 9
    /\ result.val.base = None
    /\ result.val.context = Fundamental("U8", 2)
    /\ result.val.seconds = Fundamental("U32", 3)
    /\ result.val.microseconds = Fundamental("U32", 4)

\* C18: Time.encode writes what Time.decode reads: the encode of a decoded
\* Time succeeds and writes the bytes the decode consumed, the base and
\* the context under the same flags, then the seconds and the
\* microseconds.
C18_TimeEncodeWritesWhatDecodeReads ==
    (pc = "encoded" /\ record_type = "Time") =>
        /\ ostream.st = "ok"
        /\ ostream.out = SubSeq(istream.data, 1, BaseWidth + ContextWidth + 8)

(***************************************************************************)
(* SpecDict: the dictionary.  The files of the --dictionary options are    *)
(* parsed one after another into one FswDictionary, and a telemetry        *)
(* packet or a record of a parameter database is decoded with it.          *)
(***************************************************************************)

\* the number of --dictionary options
MaxDictionaries == 2

\* a record of a parameter database: the sync word, the size, the id and
\* the value
PrmDbEntry(id, value) ==
    PrmDbRecord_sync_word \o <<0, 0, 0, 4 + Len(value)>> \o <<0, 0, 0, id>>
        \o value

\* the bytes decoded with the dictionary: the telemetry packets of the
\* channels 16 to 21, and records of the parameters 1, 2 and 3 and of 9,
\* which no file defines
DictInputs(cls) ==
    CASE cls = "TelemPacket" -> PayloadBodies(1)
      [] cls = "PrmDbRecord" ->
             {PrmDbEntry(id, <<0, 0, 0, 1>>) : id \in {1, 2, 3, 9}}
                 \cup {PrmDbEntry(1, <<7>>), PrmDbEntry(3, <<1, 2>>),
                       <<90>> \o PrmDbEntry(2, <<>>)}

InitDict ==
    /\ \E cfg \in Configurations :
          /\ flags = cfg.flags
          /\ ctypes = cfg.ctypes
    /\ fsw_dict = FswDictionary
    /\ record_type \in {"TelemPacket", "PrmDbRecord"}
    /\ \E data \in DictInputs(record_type) :
           istream = [data |-> data, pos |-> 0]
    /\ pc = "dict"
    /\ result = NoResult
    /\ record_index = 0
    /\ stderr = 0
    /\ scan = ScanIdle
    /\ ostream = NoOutput
    /\ redecoded = NoResult
    /\ output_format = "vnlog"

\* fsw_dict.parse(dictionary): the whole call, the construction and the
\* resolution of the types included
ParseDictionary ==
    /\ pc \in {"dict", "parsed"}
    /\ fsw_dict.files < MaxDictionaries
    /\ \E file \in IF fsw_dict.files = 0 THEN DictionaryFiles
                   ELSE MoreDictionaryFiles :
           fsw_dict' = parse(fsw_dict, file, ctypes)
    /\ stderr' = stderr + (fsw_dict'.warn - fsw_dict.warn)
    /\ pc' = "parsed"
    /\ UNCHANGED <<flags, ctypes, record_type, istream, result, record_index,
                   scan, ostream, redecoded, output_format>>

\* value = cls.decode(istream, fsw_dict)
DecodeWithDictionary ==
    /\ pc = "parsed"
    /\ \E r \in {CodecDecode(record_type, flags, ctypes, fsw_dict,
                             istream.data, istream.pos)} :
          /\ result' = r
          /\ istream' = [istream EXCEPT !.pos = r.pos]
          /\ stderr' = stderr + r.warn
    /\ pc' = "decoded"
    /\ UNCHANGED <<flags, ctypes, fsw_dict, record_type, record_index, scan,
                   ostream, redecoded, output_format>>

NextDict == ParseDictionary \/ DecodeWithDictionary

SpecDict == InitDict /\ [][NextDict]_vars

\* the parameter of dictionary d that has the key of parameter p
Earlier(d, p) == {i \in DOMAIN d.parameters : d.parameters[i].key = p.key}

\* the fields of the parameter record in the stream: the offset behind the
\* sync word, the size, the ID and the bytes of the value
PrmSync == FirstOccurrence(istream.data, PrmDbRecord_sync_word) + 1
PrmIdWidth == StructSize(ctypes.FwPrmIdType)
PrmSize == BytesToNat(SubSeq(istream.data, PrmSync + 1, PrmSync + 4))
PrmId ==
    BytesToNat(SubSeq(istream.data, PrmSync + 5, PrmSync + 4 + PrmIdWidth))
PrmValue ==
    SubSeq(istream.data, PrmSync + 4 + PrmIdWidth + 1,
           Min(Len(istream.data), PrmSync + PrmIdWidth + PrmSize))

\* the stream holds the sync word, the size and the ID of a parameter that
\* the dictionary lacks or has left unbound
UnboundParameterRecord ==
    /\ record_type = "PrmDbRecord"
    /\ HasOccurrence(istream.data, PrmDbRecord_sync_word)
    /\ Len(istream.data) >= PrmSync + 4 + PrmIdWidth
    /\ PrmSize >= 4
    /\ \/ PrmId \notin DOMAIN fsw_dict.parameters_by_id
       \/ fsw_dict.parameters_by_id[PrmId].type = NoType

NamesScalar(d, type_str) ==
    \/ type_str \in DOMAIN initial_types
    \/ \E i \in DOMAIN d.enums : d.enums[i].name = type_str

\* type_str names an array of dictionary d whose element type resolves
NamesArray(d, type_str) ==
    \E i \in DOMAIN d.arrays :
        /\ d.arrays[i].name = type_str
        /\ NamesScalar(d, d.arrays[i].element_type_str)

\* C20: after a single parse, every structure whose member types are
\* built-ins, enumerations of the dictionary or arrays of the dictionary
\* with resolvable element types has a bound codec, and so has every
\* channel of that structure type.
C20_StructuresBoundAfterSingleParse ==
    (pc = "parsed" /\ fsw_dict.files = 1) =>
        \A i \in DOMAIN fsw_dict.serializables :
            (\A j \in DOMAIN fsw_dict.serializables[i].members :
                 \/ NamesScalar(fsw_dict,
                                fsw_dict.serializables[i].members[j].type_str)
                 \/ NamesArray(fsw_dict,
                               fsw_dict.serializables[i].members[j].type_str))
                => /\ fsw_dict.serializables[i].name
                          \in DOMAIN fsw_dict.types
                   /\ \A c \in DOMAIN fsw_dict.channels :
                          fsw_dict.channels[c].type_str
                              = fsw_dict.serializables[i].name
                              => fsw_dict.channels[c].type # NoType

-----------------------------------------------------------------------------
(* FilePacket, under SpecCodec *)

\* the FILE packet body 00 | 00 00 00 2A | 00 00 00 01 | 03 foo | 03 bar
StartBody42 ==
    <<0>> \o <<0, 0, 0, 42>> \o <<0, 0, 0, 1>> \o <<3, 102, 111, 111>>
        \o <<3, 98, 97, 114>>

\* the path name read at offset pos of the stream: a U8 length and that
\* many ASCII bytes
PathAt(pos) ==
    [t |-> "FilePacketPathName",
     length |-> Fundamental("U8", istream.data[pos + 1]),
     value |-> [t |-> "AsciiBuffer",
                string |-> SubSeq(istream.data, pos + 2,
                                  pos + 1 + istream.data[pos + 1])]]

\* a FilePacket of sub-type START was decoded
DecodedStart ==
    /\ pc = "decoded"
    /\ record_type = "FilePacket"
    /\ result.st = "ok"
    /\ result.val.type.value = 0

\* C24: FilePacket.decode reads the sub-type as a U8 and the sequence index
\* as the U32 behind it; a START payload is the file size as the next U32
\* and two path names, each a U8 length followed by that many ASCII bytes.
\* The body 00 | 00 00 00 2A | 00 00 00 01 | 03 foo | 03 bar decodes to
\* START with sequence_index 42, file_size 1, "foo" and "bar".
C24_StartLayoutSequenceThenSize ==
    /\ DecodedStart =>
           /\ result.val.sequence_index
                  = Fundamental("U32", BytesToNat(SubSeq(istream.data, 2, 5)))
           /\ result.val.payload.file_size
                  = Fundamental("U32", BytesToNat(SubSeq(istream.data, 6, 9)))
           /\ result.val.payload.source_path = PathAt(9)
           /\ result.val.payload.destination_path
                  = PathAt(10 + istream.data[10])
           /\ istream.pos = 11 + istream.data[10]
                                + istream.data[11 + istream.data[10]]
    /\ (pc = "decoded" /\ record_type = "FilePacket"
            /\ istream.data = StartBody42) =>
           /\ DecodedStart
           /\ result.val.sequence_index = Fundamental("U32", 42)
           /\ result.val.payload.file_size = Fundamental("U32", 1)
           /\ result.val.payload.source_path.value.string = <<102, 111, 111>>
           /\ result.val.payload.destination_path.value.string
                  = <<98, 97, 114>>

\* the body of the claim was decoded, all 17 bytes of it
C24_Witness ==
    /\ DecodedStart
    /\ istream.data = StartBody42
    /\ istream.pos = 17
    /\ result.val.sequence_index.value = 42
    /\ result.val.payload.file_size.value = 1

\* C24 as stated: the body 00 | 00 00 00 2A | 00 00 00 01 | 03 foo | 03 bar
\* decodes to START with sequence_index 1 and file_size 42, "foo" and
\* "bar".
C24_StartBodyDecodesToSequence1Size42 ==
    (pc = "decoded" /\ record_type = "FilePacket"
         /\ istream.data = StartBody42) =>
        /\ DecodedStart
        /\ result.val.sequence_index = Fundamental("U32", 1)
        /\ result.val.payload.file_size = Fundamental("U32", 42)
        /\ result.val.payload.source_path.value.string = <<102, 111, 111>>
        /\ result.val.payload.destination_path.value.string = <<98, 97, 114>>

-----------------------------------------------------------------------------
(* The main program: record type selection, the record loop, the printers  *)

\* the record types the help of --record-type documents
DocumentedRecordTypes ==
    {"ComLoggerRecord", "FprimeGdsRecord", "PrmDbRecord", "FprimeGdsStream"}

\* C28: every record-type name the --record-type help documents
\* (ComLoggerRecord, FprimeGdsRecord, PrmDbRecord, FprimeGdsStream) is in
\* fp_types_custom with a decode, so selecting it enters the record loop
\* instead of exiting with code 1; a name that is neither in the registry
\* nor in the dictionary namespace exits with code 1.
C28_DocumentedRecordTypesAreRegistered ==
    [][pc = "args" =>
           /\ record_type \in DocumentedRecordTypes => pc' = "loop"
           /\ (/\ record_type \notin fp_types_custom
               /\ record_type \notin DocumentedRecordTypes
               /\ fsw_dict'.loaded => record_type \notin DOMAIN fsw_dict'.types)
                  => pc' = "exit1"]_vars

\* the lines print_record wrote: the header, where there is one, comes first
HeaderLines == IF output_format = "json" THEN 0 ELSE 1
EmittedCount == Len(ostream.out) - HeaderLines
EmittedLine(i) == ostream.out[HeaderLines + i]

\* ParseArgs has passed the record type checks
InOrAfterLoop == pc \in {"loop", "done", "crashed"}

\* C22: every record line of the TSV and VNLOG printers has exactly 25
\* fields, as the header has, whatever the packet type; the cells that do
\* not apply are '' in TSV and '-' in VNLOG.
C22_EveryLineHas25Fields ==
    (InOrAfterLoop /\ output_format \in {"tsv", "vnlog"}) =>
        /\ Len(ostream.out[1]) = Len(Columns)
        /\ \A i \in 1..EmittedCount : Len(EmittedLine(i)) = Len(Columns)

\* C25: for every record type that --record-type can select and every
\* finite input, once the input is exhausted the next decode ends the
\* record loop (EndOfStream, which the loop takes as the end of the run).
C25_ExhaustedInputEndsLoop ==
    [][(pc = "loop" /\ istream.pos = Len(istream.data)) => pc' = "done"]_vars


\* the record lines print_record wrote in full: a call that raised left its
\* line unfinished, and it is the last one
CompleteCount == EmittedCount - (IF ostream.st = "ok" THEN 0 ELSE 1)

\* the offset, the size field and the index of the i-th emitted record, as
\* the printer wrote them (JsonPrinter writes the record, without an index)
EmittedOffset(i) ==
    IF output_format = "json" THEN EmittedLine(i)[1].value.offset
    ELSE EmittedLine(i)[2].value
EmittedSize(i) ==
    IF output_format = "json" THEN EmittedLine(i)[1].value.packet_size.value
    ELSE EmittedLine(i)[3].value
EmittedIndex(i) ==
    IF output_format = "json" THEN i - 1 ELSE EmittedLine(i)[1].value

\* C21: over one run, the records of ComLoggerRecord / FprimeGdsRecord are
\* emitted in byte order: each emitted record starts where the one before it
\* ended by its size field, offset(i+1) = offset(i) + width(packet_size) +
\* packet_size(i) >= offset(i), and record_index counts the emitted records
\* one by one from 0.
C21_OffsetsAdvanceBySizeFieldAndRecord ==
    (InOrAfterLoop /\ record_type \in RecordNames) =>
        /\ \A i \in 1..(CompleteCount - 1) :
               /\ EmittedOffset(i + 1) =
                      EmittedOffset(i)
                          + StructSize(packet_size_type(record_type))
                          + EmittedSize(i)
               /\ EmittedOffset(i + 1) >= EmittedOffset(i)
        /\ \A i \in 1..CompleteCount : EmittedIndex(i) = i - 1
        /\ record_index = CompleteCount

\* two records were emitted as lines of a table, the second one further
\* into the input than the first, and the input ended there
C21_Witness ==
    /\ pc = "done"
    /\ record_type \in RecordNames
    /\ output_format = "tsv"
    /\ CompleteCount = 2
    /\ record_index = 2
    /\ EmittedSize(1) > 0
    /\ EmittedOffset(2) > EmittedOffset(1)


\* the position behind the size field of the parameter record decoded from
\* position offset: behind the first sync byte from there and four bytes
PrmAfterSize(data, offset) ==
    offset
        + FirstOccurrence(SubSeq(data, offset + 1, Len(data)),
                          PrmDbRecord_sync_word)
        + Len(PrmDbRecord_sync_word) + 4

\* the record loop decodes parameter records, and the input holds another
\* one with all of its size field and ID
NextPrmDbRecord ==
    /\ pc = "loop"
    /\ record_type = "PrmDbRecord"
    /\ HasOccurrence(SubSeq(istream.data, istream.pos + 1,
                            Len(istream.data)), PrmDbRecord_sync_word)
    /\ Len(istream.data) >= PrmAfterSize(istream.data, istream.pos)
                                + StructSize(ctypes.FwPrmIdType)

\* C30: PrmDbRecord.decode confines the read of value_raw by the size field
\* for every size, the sizes 0..3 below the width of the ID included: the
\* read of value_raw does not fail on the size, and a decode that returns
\* a record has consumed behind the size field no more than size bytes (the
\* ID, when the size is smaller than the ID), so the records that follow
\* stay in the stream.
C30_ValueRawConfinedBySize ==
    [][NextPrmDbRecord =>
           /\ result'.st # "ValueError"
           /\ result'.st = "ok" =>
                  istream'.pos
                      <= PrmAfterSize(istream.data, istream.pos)
                             + Max(result'.val.size.value,
                                   StructSize(ctypes.FwPrmIdType))]_vars

\* result holds a parameter record all of whose size bytes were in the
\* input, the size being at least the width of the ID
WholePrmDbRecord ==
    /\ InOrAfterLoop
    /\ record_type = "PrmDbRecord"
    /\ result.st = "ok"
    /\ result.val.size.value >= StructSize(ctypes.FwPrmIdType)
    /\ Len(istream.data) >= PrmAfterSize(istream.data, result.val.offset)
                                + result.val.size.value

\* C23: PrmDbRecord.decode reads, behind the sync byte and the u32 size, the
\* ID with the codec FwPrmIdType is bound to and then exactly
\* size - sizeof(FwPrmIdType) bytes as value_raw, whatever the width of
\* that type: the width of the ID plus the length of value_raw is size.
C23_IdWidthPlusValueRawIsSize ==
    WholePrmDbRecord =>
        /\ result.val.id.t = ctypes.FwPrmIdType
        /\ StructSize(ctypes.FwPrmIdType) + Len(result.val.value_raw.data)
               = result.val.size.value


\* the fields of a payload that are read from the stream, without the ones
\* the dictionary resolves
Unresolved(payload) ==
    CASE payload.t = "CommandPacket" ->
             [t |-> payload.t, opcode |-> payload.opcode,
              arguments_raw |-> payload.arguments_raw]
      [] payload.t = "TelemPacket" ->
             [t |-> payload.t, id |-> payload.id, time |-> payload.time,
              value_raw |-> payload.value_raw]
      [] payload.t = "EventPacket" ->
             [t |-> payload.t, id |-> payload.id, time |-> payload.time,
              arguments_raw |-> payload.arguments_raw]
      [] OTHER -> payload
Framing(record) ==
    [offset |-> record.offset,
     packet_size |-> record.packet_size,
     type |-> record.packet.type,
     payload |-> Unresolved(record.packet.payload)]

\* C29: the dictionary does not interfere with the framing: each decode of
\* the record loop ends as the decode of the same bytes without a dictionary
\* ends, at the same position, and returns a record with the same offset,
\* packet_size, packet type, identifier, time and raw bytes; the dictionary
\* only adds resolved fields and never stops a record.
C29_DictionaryLeavesFramingAlone ==
    [][InRecordLoop =>
           LET plain == RecordDecode(record_type, flags, ctypes, NoDict,
                                     istream.data, istream.pos)
           IN  /\ result'.st = plain.st
               /\ result'.pos = plain.pos
               /\ plain.st = "ok" =>
                      Framing(result'.val) = Framing(plain.val)]_vars


-----------------------------------------------------------------------------
(* The by-ID dicts of the dictionary, under SpecDict *)

\* the types resolve_types binds were looked up for this object: no
\* argument and no channel is unbound whose type string names a type of the
\* namespace
ArgumentsResolved(item) ==
    \A j \in DOMAIN item.args :
        item.args[j].type_str \in DOMAIN fsw_dict.types
            => item.args[j].type # NoType
TypeResolved(item) ==
    item.type_str \in DOMAIN fsw_dict.types => item.type # NoType

\* the object is a value of the by-key dict
IsValueOf(items, item) == \E i \in DOMAIN items : items[i] = item

\* C27: after any sequence of parse calls, files that repeat a (component,
\* name) key or an ID included, the by-ID dicts and the by-key dicts hold
\* the same objects: every object of commands_by_opcode, events_by_id,
\* channels_by_id and parameters_by_id is stored under its own ID, is a
\* value of commands, events, channels or parameters, and has been
\* processed by resolve_types.
C27_IndexesHoldTheObjectsOfTheCollections ==
    pc \in {"parsed", "decoded"} =>
        /\ \A id \in DOMAIN fsw_dict.commands_by_opcode :
               /\ fsw_dict.commands_by_opcode[id].opcode = id
               /\ IsValueOf(fsw_dict.commands,
                            fsw_dict.commands_by_opcode[id])
               /\ ArgumentsResolved(fsw_dict.commands_by_opcode[id])
        /\ \A id \in DOMAIN fsw_dict.events_by_id :
               /\ fsw_dict.events_by_id[id].id = id
               /\ IsValueOf(fsw_dict.events, fsw_dict.events_by_id[id])
               /\ ArgumentsResolved(fsw_dict.events_by_id[id])
        /\ \A id \in DOMAIN fsw_dict.channels_by_id :
               /\ fsw_dict.channels_by_id[id].id = id
               /\ IsValueOf(fsw_dict.channels, fsw_dict.channels_by_id[id])
               /\ TypeResolved(fsw_dict.channels_by_id[id])
        /\ \A id \in DOMAIN fsw_dict.parameters_by_id :
               /\ fsw_dict.parameters_by_id[id].id = id
               /\ IsValueOf(fsw_dict.parameters,
                            fsw_dict.parameters_by_id[id])

====
